---- MODULE Spec2Model ----
(***************************************************************************)
(* Model of the movie recommendation engine                                *)
(* (src/src/services/movie_recommendation_engine.py) and of the parts of   *)
(* the movie model it uses (src/src/models/Movies.py).                     *)
(*                                                                         *)
(* One engine object is modelled.  find_similar_movies_for_each is a       *)
(* sequential routine; the model follows it with a program counter and     *)
(* takes one step per catalog request, the answer of the catalog client    *)
(* (payload, failure signal None, or exception) being chosen by the        *)
(* environment.  Scores are exact rationals scaled by ScoreScale.          *)
(*                                                                         *)
(* Three specifications share the steps of the routine and differ in the   *)
(* calls they admit: Spec is one call for one target, BatchSpec one call   *)
(* for a list of targets, EngineSpec a sequence of calls on the engine.    *)
(***************************************************************************)
EXTENDS Integers, Sequences, FiniteSets, TLC

(***************************************************************************)
(* Bounds of the model                                                     *)
(***************************************************************************)
\* length of top_movies (BatchSpec), similar_per_movie (Spec), calls of
\* find_similar_movies_for_each on the engine (EngineSpec)
MaxTargets == 2
MaxK == 2
MaxCalls == 2
\* non-empty payloads (lists of records, details) the catalog delivers during
\* one call; any number of requests may fail or come back empty
MaxPayloads == 2
\* length of a list handed to a similarity function called directly
MaxListLen == 3
\* top_n of get_top_movies_by_year
MaxTopN == 2
\* api.max_retries of the configuration
MaxRetriesBound == 3

(***************************************************************************)
(* Program constants                                                       *)
(***************************************************************************)
MinVoteCount == 100
SameYearLimit == 50
GenreLimit == 25
NearbyLimit == 10
GenresToUse == 2
MinNearbyYear == 1900
MaxNearbyYear == 2025
GenreWeight == 300
KeywordWeight == 100
DirectorWeight == 100
CollectionWeight == 300
ProductionCompanyWeight == 200
DefaultApiDelay == 1
DefaultSimilarPerMovie == 3
DefaultMaxPages == 5
DefaultMaxRetries == 3
DefaultRetryDelay == 1
\* the default weights are thousandths and sum to WeightScale; a sub-score is a
\* fraction of SimScale, which every union size up to 6 divides
WeightScale ==
    GenreWeight + KeywordWeight + DirectorWeight + CollectionWeight
        + ProductionCompanyWeight
SimScale == 3 * 4 * 5
ScoreScale == WeightScale * SimScale

\* absent values: a director that is None, a release year that cannot be
\* derived, a collection id that is None (years and ids are positive)
None == "None"
NoYear == 0
NoCollection == 0

ValidStrategies == {"tmdb_api", "same_year", "same_genre", "hybrid"}
Strategies == ValidStrategies \cup {"bogus"}
YearOffsets == <<-2, -1, 1, 2>>

(***************************************************************************)
(* Generic helpers                                                         *)
(***************************************************************************)
Min(a, b) == IF a < b THEN a ELSE b
Max(a, b) == IF a > b THEN a ELSE b
Range(s) == {s[j] : j \in 1..Len(s)}
Take(s, n) == SubSeq(s, 1, Min(n, Len(s)))
SeqsUpTo(S, n) == UNION {[1..m -> S] : m \in 0..n}

(***************************************************************************)
(* Movies.  A raw catalog record and a Movie carry the same fields; a      *)
(* field the payload lacks is None, NoYear, NoCollection or the empty       *)
(* sequence (genres, keywords, production companies).                      *)
(***************************************************************************)
Rec(id, title, votes, year, genres, keywords, director, coll, companies) ==
    [id |-> id, title |-> title, vote_count |-> votes, release_year |-> year,
     genres |-> genres, keywords |-> keywords, director |-> director,
     collection_id |-> coll, production_company_ids |-> companies]

\* Movie field constraints: id > 0, title of length >= 1, vote_count >= 0
ValidRecord(r) == r.id > 0 /\ r.title # "" /\ r.vote_count >= 0

\* movie_from_tmdb_response: builds the Movie of a record that validates
MovieFromTmdbResponse(r) ==
    [id |-> r.id, title |-> r.title, vote_count |-> r.vote_count,
     release_year |-> r.release_year,
     genres |-> r.genres, keywords |-> r.keywords, director |-> r.director,
     collection_id |-> r.collection_id,
     production_company_ids |-> r.production_company_ids]

\* isinstance(movie_data, (dict, Mapping)): an element that is no mapping is
\* a record without the fields of a movie
IsMapping(x) == "id" \in DOMAIN x

\* an element a movie is built from
Validates(x) == IsMapping(x) /\ ValidRecord(x)

\* a validation that the first element it cannot build a movie from ends
RECURSIVE ValidateUntilInvalid(_)
ValidateUntilInvalid(rs) ==
    IF rs = <<>> \/ ~Validates(Head(rs)) THEN <<>>
    ELSE <<MovieFromTmdbResponse(Head(rs))>>
             \o ValidateUntilInvalid(Tail(rs))

\* validate_movie_list: invalid records and elements that are no mappings
\* are skipped, order is kept
ValidateMovieList(rs) ==
    LET valid == SelectSeq(rs, Validates)
    IN [j \in 1..Len(valid) |-> MovieFromTmdbResponse(valid[j])]

\* a de-duplication that keeps the instance seen last
RECURSIVE KeepLastSeen(_)
KeepLastSeen(ms) ==
    IF ms = <<>> THEN <<>>
    ELSE LET front == KeepLastSeen(SubSeq(ms, 1, Len(ms) - 1))
             last == ms[Len(ms)]
             Other(m) == m.id # last.id
         IN Append(SelectSeq(front, Other), last)

\* remove_duplicate_movies: first-seen instance of every id, stable order
RECURSIVE RemoveDuplicateMovies(_)
RemoveDuplicateMovies(ms) ==
    IF ms = <<>> THEN <<>>
    ELSE LET first == Head(ms)
             Other(m) == m.id # first.id
         IN <<first>> \o SelectSeq(RemoveDuplicateMovies(Tail(ms)), Other)

\* [m for m in movies if m.id != target_movie.id]
ExcludeTarget(ms, target) ==
    LET Keep(m) == m.id # target.id IN SelectSeq(ms, Keep)

\* [m for m in results if m.get("vote_count", 0) >= self.min_vote_count]
FilterByVotes(rs) ==
    LET Enough(r) == r.vote_count >= MinVoteCount IN SelectSeq(rs, Enough)

(***************************************************************************)
(* Movie.normalize_title_for_sorting (Movies.py, lines 265-281).  A title  *)
(* is the sequence of its words and of the whitespace between and around   *)
(* them, one " " per whitespace character.                                 *)
(***************************************************************************)
Space == " "

\* str.lower() of the words of the model
Lower(word) ==
    CASE word \in {"The", "THE"} -> "the"
      [] word = "A" -> "a"
      [] word = "An" -> "an"
      [] word = "By" -> "by"
      [] word = "In" -> "in"
      [] word = "Matrix" -> "matrix"
      [] word = "Movie" -> "movie"
      [] word = "Sea" -> "sea"
      [] word = "Time" -> "time"
      [] word = "A-Team" -> "a-team"
      [] word = "Inception" -> "inception"
      [] word = "Reloaded" -> "reloaded"
      [] OTHER -> word

\* str.lstrip() and str.strip()
RECURSIVE LStrip(_)
LStrip(title) ==
    IF title # <<>> /\ Head(title) = Space THEN LStrip(Tail(title)) ELSE title
RECURSIVE Strip(_)
Strip(title) ==
    IF title # <<>> /\ title[Len(title)] = Space
    THEN Strip(SubSeq(title, 1, Len(title) - 1))
    ELSE LStrip(title)

\* line 277: the words the pattern ^(The|A|An)\s+(.+)$ accepts, ignoring case
Articles == {"the", "a", "an"}

\* re.match: the pattern matches a stripped title that begins with an article
\* followed by whitespace (the rest is then not empty); group(2) is what
\* follows that whitespace
NormalizeTitleForSorting(title, ignore_articles) ==
    LET t == Strip(title)
    IN IF ignore_articles /\ Len(t) >= 2 /\ Lower(t[1]) \in Articles
          /\ t[2] = Space
       THEN Strip(Tail(t))
       ELSE t

\* the text of a title of the model, as its words and blanks
TitleWords(title) ==
    IF title = "The Matrix" THEN <<"The", Space, "Matrix">> ELSE <<title>>

\* line 190: the sort key, normalize_title_for_sorting(...).lower()
SortKey(m, ignore_articles) ==
    LET t == NormalizeTitleForSorting(TitleWords(m.title), ignore_articles)
    IN [j \in 1..Len(t) |-> Lower(t[j])]

\* the place of a lowered word in the order of str: a blank sorts before
\* every letter
WordRank(word) ==
    CASE word = Space -> 0
      [] word = "a" -> 1
      [] word = "a-team" -> 2
      [] word = "an" -> 3
      [] word = "by" -> 4
      [] word = "in" -> 5
      [] word = "inception" -> 6
      [] word = "matrix" -> 7
      [] word = "movie" -> 8
      [] word = "reloaded" -> 9
      [] word = "sea" -> 10
      [] word = "the" -> 11
      [] word = "time" -> 12
      [] OTHER -> 13

\* a < b of two keys
RECURSIVE KeyLess(_, _)
KeyLess(a, b) ==
    IF b = <<>> THEN FALSE
    ELSE IF a = <<>> THEN TRUE
    ELSE IF WordRank(Head(a)) # WordRank(Head(b))
         THEN WordRank(Head(a)) < WordRank(Head(b))
         ELSE KeyLess(Tail(a), Tail(b))

\* sort_movies_by_name (movie_service.py, lines 176-191): sorted() is stable
RECURSIVE InsertByName(_, _, _)
InsertByName(x, sorted, ignore_articles) ==
    IF sorted = <<>> THEN <<x>>
    ELSE IF KeyLess(SortKey(x, ignore_articles),
                    SortKey(Head(sorted), ignore_articles))
         THEN <<x>> \o sorted
         ELSE <<Head(sorted)>>
                  \o InsertByName(x, Tail(sorted), ignore_articles)

RECURSIVE SortMoviesByName(_, _)
SortMoviesByName(movies, ignore_articles) ==
    IF movies = <<>> THEN <<>>
    ELSE InsertByName(movies[Len(movies)],
                      SortMoviesByName(SubSeq(movies, 1, Len(movies) - 1),
                                       ignore_articles),
                      ignore_articles)

(***************************************************************************)
(* Similarity scorer                                                       *)
(***************************************************************************)
\* a ratio that counts every occurrence of a repeated element
JaccardOfLists(a, b) ==
    IF a = <<>> \/ b = <<>> THEN 0
    ELSE LET InB(x) == x \in Range(b)
             common == Len(SelectSeq(a, InB))
         IN (SimScale * common) \div (Len(a) + Len(b) - common)

Jaccard(a, b) ==
    IF a = <<>> \/ b = <<>> THEN 0
    ELSE (SimScale * Cardinality(Range(a) \cap Range(b)))
             \div Cardinality(Range(a) \cup Range(b))

CalculateGenreSimilarity(genres1, genres2) == Jaccard(genres1, genres2)
CalculateKeywordSimilarity(keywords1, keywords2) == Jaccard(keywords1, keywords2)
CalculateProductionCompanySimilarity(c1, c2) == Jaccard(c1, c2)

\* lower().strip() of the director names of the model
Normalize(name) ==
    CASE name = "lana wachowski " -> "lana wachowski"
      [] name = "Lana Wachowski" -> "lana wachowski"
      [] name = "Christopher Nolan" -> "christopher nolan"
      [] OTHER -> name

\* a comparison that folds and trims the first name only
DirectorSimilarityOfFirstFolded(d1, d2) ==
    IF d1 \in {None, ""} \/ d2 \in {None, ""} THEN 0
    ELSE IF Normalize(d1) = d2 THEN SimScale ELSE 0

\* "not director": None and the empty name are absent directors
CalculateDirectorSimilarity(d1, d2) ==
    IF d1 \in {None, ""} \/ d2 \in {None, ""} THEN 0
    ELSE IF Normalize(d1) = Normalize(d2) THEN SimScale ELSE 0

CalculateCollectionSimilarity(c1, c2) ==
    IF c1 = NoCollection \/ c2 = NoCollection THEN 0
    ELSE IF c1 = c2 THEN SimScale ELSE 0

DefaultWeights ==
    [genre |-> GenreWeight, keyword |-> KeywordWeight,
     director |-> DirectorWeight, collection |-> CollectionWeight,
     production_company |-> ProductionCompanyWeight]

\* the weighted sum without the clamp
UnclampedScore(w, t, c) ==
    CalculateGenreSimilarity(t.genres, c.genres) * w.genre
        + CalculateKeywordSimilarity(t.keywords, c.keywords) * w.keyword
        + CalculateDirectorSimilarity(t.director, c.director) * w.director
        + CalculateCollectionSimilarity(t.collection_id, c.collection_id)
              * w.collection
        + CalculateProductionCompanySimilarity(
              t.production_company_ids, c.production_company_ids)
              * w.production_company

\* calculate_similarity_score: weighted sum clamped to [0, 1]
CalculateSimilarityScore(w, t, c) ==
    LET sum == CalculateGenreSimilarity(t.genres, c.genres) * w.genre
             + CalculateKeywordSimilarity(t.keywords, c.keywords) * w.keyword
             + CalculateDirectorSimilarity(t.director, c.director) * w.director
             + CalculateCollectionSimilarity(t.collection_id, c.collection_id)
                   * w.collection
             + CalculateProductionCompanySimilarity(
                   t.production_company_ids, c.production_company_ids)
                   * w.production_company
    IN Max(0, Min(ScoreScale, sum))

(***************************************************************************)
(* Ranking (_calculate_similarity_and_rank, after enrichment)              *)
(***************************************************************************)
\* a scoring loop without the self-match test of line 545
ScoreEveryCandidate(w, target, cs) ==
    [j \in 1..Len(cs) |->
        [similar_movie |-> cs[j],
         similarity_score |-> CalculateSimilarityScore(w, target, cs[j])]]

\* the scoring loop: self-matches are skipped, every other candidate is scored
RECURSIVE ScoreCandidates(_, _, _)
ScoreCandidates(w, target, cs) ==
    IF cs = <<>> THEN <<>>
    ELSE LET c == Head(cs)
             rest == ScoreCandidates(w, target, Tail(cs))
         IN IF c.id = target.id THEN rest
            ELSE <<[similar_movie |-> c,
                    similarity_score |->
                        CalculateSimilarityScore(w, target, c)]>>
                 \o rest

\* a sort that puts a later candidate before the earlier ones of equal score
RECURSIVE InsertBeforeTies(_, _)
InsertBeforeTies(x, sorted) ==
    IF sorted = <<>> THEN <<x>>
    ELSE IF Head(sorted).similarity_score > x.similarity_score
         THEN <<Head(sorted)>> \o InsertBeforeTies(x, Tail(sorted))
         ELSE <<x>> \o sorted

\* list.sort(key=score, reverse=True): stable, equal scores keep their order
RECURSIVE InsertByScore(_, _)
InsertByScore(x, sorted) ==
    IF sorted = <<>> THEN <<x>>
    ELSE IF Head(sorted).similarity_score >= x.similarity_score
         THEN <<Head(sorted)>> \o InsertByScore(x, Tail(sorted))
         ELSE <<x>> \o sorted

RECURSIVE SortByScoreDesc(_)
SortByScoreDesc(s) ==
    IF s = <<>> THEN <<>>
    ELSE InsertByScore(s[Len(s)], SortByScoreDesc(SubSeq(s, 1, Len(s) - 1)))

\* scored_movies[:top_n] of the sorted list
TopSimilar(scored, top_n) == Take(SortByScoreDesc(scored), top_n)

(***************************************************************************)
(* calculate_similarity_score with its metrics and the similarity reason.  *)
(* A reason is the sequence of its parts, which the text joins with "; ";  *)
(* a part is its wording and the names it lists.                           *)
(***************************************************************************)
\* a value Python takes for false where a name is expected: None or ""
Falsy(name) == name = None \/ name = ""

Part(wording, names) == [wording |-> wording, names |-> names]

\* list(set(xs).intersection(set(ys))), in the order of xs
RECURSIVE Shared(_, _)
Shared(xs, ys) ==
    IF xs = <<>> THEN <<>>
    ELSE LET rest == Shared(Tail(xs), ys)
         IN IF Head(xs) \in Range(ys) /\ Head(xs) \notin Range(Tail(xs))
            THEN <<Head(xs)>> \o rest
            ELSE rest

\* the names, in the target's production_companies, of the shared companies
\* that have one
RECURSIVE SharedCompanyNames(_, _)
SharedCompanyNames(companies, shared) ==
    IF companies = <<>> THEN <<>>
    ELSE LET company == Head(companies)
             rest == SharedCompanyNames(Tail(companies), shared)
         IN IF company.id \in Range(shared) /\ ~Falsy(company.name)
            THEN <<company.name>> \o rest
            ELSE rest

FranchiseReason(collection_sim, collection1) ==
    IF collection_sim > 0 /\ ~Falsy(collection1)
    THEN <<Part("Same franchise", <<collection1>>)>>
    ELSE <<>>

\* a studio part only for a company similarity above one half
StudioReasonAboveHalf(production_company_sim, shared_company_names) ==
    IF 2 * production_company_sim > SimScale /\ shared_company_names # <<>>
    THEN <<Part("Same studio", Take(shared_company_names, 2))>>
    ELSE <<>>

\* up to two names; the "(+N more)" suffix follows from the names left out
StudioReason(production_company_sim, shared_company_names) ==
    IF production_company_sim > 0 /\ shared_company_names # <<>>
    THEN <<Part("Same studio", Take(shared_company_names, 2))>>
    ELSE <<>>

DirectorReason(director_sim, director1) ==
    IF director_sim > 0 /\ ~Falsy(director1)
    THEN <<Part("Same director", <<director1>>)>>
    ELSE <<>>

\* genre_sim > 0.5 lists up to three shared genres, genre_sim > 0 does not
GenreReason(genre_sim, shared_genres) ==
    IF 2 * genre_sim > SimScale
    THEN <<Part("Similar genres", Take(shared_genres, 3))>>
    ELSE IF genre_sim > 0 THEN <<Part("Some genre overlap", <<>>)>>
    ELSE <<>>

\* keyword_sim > 0.3
KeywordReason(keyword_sim) ==
    IF 10 * keyword_sim > 3 * SimScale
    THEN <<Part("Similar themes/keywords", <<>>)>>
    ELSE <<>>

\* a join of every reason
AllReasons(reasons) ==
    IF reasons = <<>> THEN <<Part("General similarity", <<>>)>> ELSE reasons

\* "General similarity" without reasons, else "; ".join(reasons[:3])
LimitReasons(reasons) ==
    IF reasons = <<>> THEN <<Part("General similarity", <<>>)>>
    ELSE Take(reasons, 3)

GenerateSimilarityReason(genre_sim, keyword_sim, director_sim, collection_sim, production_company_sim, shared_genres, director1, director2, collection1, collection2, shared_company_names) ==
    LimitReasons(
        FranchiseReason(collection_sim, collection1)
            \o StudioReason(production_company_sim, shared_company_names)
            \o DirectorReason(director_sim, director1)
            \o GenreReason(genre_sim, shared_genres)
            \o KeywordReason(keyword_sim))

\* the metrics dictionary of calculate_similarity_score
Metrics(t, c) ==
    LET genre_sim == CalculateGenreSimilarity(t.genres, c.genres)
        keyword_sim == CalculateKeywordSimilarity(t.keywords, c.keywords)
        director_sim == CalculateDirectorSimilarity(t.director, c.director)
        collection_sim ==
            CalculateCollectionSimilarity(t.collection_id, c.collection_id)
        production_company_sim ==
            CalculateProductionCompanySimilarity(
                t.production_company_ids, c.production_company_ids)
        shared_genres == Shared(t.genres, c.genres)
        shared_company_names ==
            SharedCompanyNames(
                t.production_companies,
                Shared(t.production_company_ids, c.production_company_ids))
    IN [genre_similarity |-> genre_sim,
        keyword_similarity |-> keyword_sim,
        director_similarity |-> director_sim,
        collection_similarity |-> collection_sim,
        production_company_similarity |-> production_company_sim,
        shared_genres |-> shared_genres,
        shared_keywords |-> Shared(t.keywords, c.keywords),
        shared_production_companies |-> shared_company_names,
        similarity_reason |->
            GenerateSimilarityReason(
                genre_sim, keyword_sim, director_sim, collection_sim,
                production_company_sim, shared_genres, t.director, c.director,
                t.collection_name, c.collection_name, shared_company_names)]

(***************************************************************************)
(* Inputs: the targets a caller may pass and the records the catalog may   *)
(* return.                                                                 *)
(***************************************************************************)
Matrix ==
    Rec(1, "The Matrix", 25000, 2025, <<"Action", "SciFi", "Thriller">>,
        <<"ai", "vr">>, "Lana Wachowski", 2344, <<79, 174>>)
Untitled == Rec(2, "Untitled", 500, NoYear, <<>>, <<>>, None, NoCollection, <<>>)
Targets == {Matrix, Untitled}

Sparse3 == Rec(3, "Reloaded", 500, 2025, <<>>, <<>>, None, NoCollection, <<>>)
Rich3 ==
    Rec(3, "Reloaded", 900, 2025, <<"Action", "SciFi", "Thriller">>,
        <<"ai", "vr">>, "lana wachowski ", 2344, <<79, 174>>)
Rich4 ==
    Rec(4, "Inception", 800, 2024, <<"Action", "SciFi", "Thriller">>,
        <<"heist">>, "Christopher Nolan", NoCollection, <<174>>)
LowVotes2 ==
    Rec(2, "Untitled", 50, NoYear, <<>>, <<>>, None, NoCollection, <<>>)
NoTitle == Rec(5, "", 700, 2025, <<>>, <<>>, None, NoCollection, <<>>)

\* the "results" of the payloads of the model: the same id twice (the first
\* record lacking details); a target, an invalid record, a low-vote record
\* and two movies whose scores against Matrix are not in payload order; no
\* movie
ListPayloads ==
    {<<Sparse3, Rich3>>, <<Matrix, NoTitle, LowVotes2, Rich4, Rich3>>, <<>>}

\* targets whose release year is at, next to or away from the ends of the
\* range of the neighbouring years, or cannot be derived
AtYear(m, y) == [m EXCEPT !.release_year = y]
TargetYears == {NoYear, 1899, 1902, 2020, 2024, 2027}
YearTargets == {AtYear(Matrix, y) : y \in TargetYears}

\* targets with no, one, two and three genres, with and without a year
GenreTargets ==
    {[Matrix EXCEPT !.genres = gs, !.release_year = y] :
        gs \in {<<>>, <<"Thriller">>, <<"SciFi", "Action">>,
                <<"Action", "SciFi", "Thriller">>},
        y \in {NoYear, 2025}}

\* a page of one more record than the hybrid strategy takes from a
\* neighbouring year; the records need no enrichment
Filler(j) ==
    Rec(10 + j, "Filler", 800, 2024, <<"Drama">>, <<"slow">>,
        "Christopher Nolan", NoCollection, <<>>)
LongPayload == [j \in 1..(NearbyLimit + 1) |-> Filler(j)]

\* what a list request may answer: an exception, the failure signal, or a
\* payload
Answer(kind, data) == [kind |-> kind, data |-> data]
Raise == Answer("raise", <<>>)
Failure == Answer("none", <<>>)
ListAnswers ==
    {Raise, Failure}
        \cup {Answer("ok", rs) : rs \in ListPayloads}
LongAnswers == {Answer("ok", LongPayload)}

\* two pages of one more record than the same_genre strategy takes from a
\* genre, with different records
LongGenrePage(k) ==
    [j \in 1..(GenreLimit + 1) |-> Filler((k - 1) * (GenreLimit + 1) + j)]
LongGenreAnswers == {Answer("ok", LongGenrePage(k)) : k \in 1..GenresToUse}

\* details payloads (genres, collection and companies, no keywords or director)
Details3 ==
    Rec(3, "Reloaded", 900, 2025, <<"Action", "SciFi">>, <<>>, None, 2344,
        <<79>>)
Details1 ==
    Rec(1, "The Matrix", 25000, 2025, <<"Action", "SciFi", "Thriller">>,
        <<>>, None, 2344, <<79, 174>>)
DetailsBad ==
    Rec(0, "Broken", 10, NoYear, <<>>, <<>>, None, NoCollection, <<>>)
\* the data of a details answer is the one-element sequence of its payload,
\* of a keywords answer the keyword names, of a credits answer the names of
\* the crew members whose job is "Director"
DetailsAnswers ==
    {Raise, Failure}
        \cup {Answer("ok", <<d>>) : d \in {Details3, Details1, DetailsBad}}
KeywordsAnswers == {Raise, Failure, Answer("ok", <<"ai", "vr">>)}
CreditsAnswers ==
    {Raise, Failure, Answer("ok", <<>>), Answer("ok", <<"Lana Wachowski">>)}
ApiDelays == {DefaultApiDelay, -DefaultApiDelay}

\* a movie with its collection name and the names of its production
\* companies ("" for a company without a name)
Named(m, collection_name, company_names) ==
    m @@ [collection_name |-> collection_name,
          production_companies |->
              [j \in 1..Len(m.production_company_ids) |->
                  [id |-> m.production_company_ids[j],
                   name |-> company_names[j]]]]

\* the pair of the scoring scenario (sub-scores 1, 1/2, 1, 1, 1); a movie of
\* the same collection and studio that carries neither name; a movie that
\* overlaps the first in one genre of five and one keyword of five; a movie
\* without any similarity field
Neo ==
    Named(Rec(1, "The Matrix", 25000, 1999, <<"Action", "SciFi", "Thriller">>,
              <<"ai", "vr", "hacker">>, "Lana Wachowski", 2344, <<79, 174>>),
          "The Matrix Collection", <<"Village Roadshow", "Warner Bros.">>)
Sequel ==
    Named(Rec(3, "Reloaded", 900, 2003, <<"Action", "SciFi", "Thriller">>,
              <<"ai", "vr", "sequel">>, "Lana Wachowski", 2344, <<79, 174>>),
          "The Matrix Collection", <<"Village Roadshow", "Warner Bros.">>)
Nameless ==
    Named(Rec(6, "Animatrix", 300, 2003, <<"Animation">>, <<"anime">>,
              None, 2344, <<79>>),
          None, <<"">>)
Partial ==
    Named(Rec(4, "Inception", 800, 2010, <<"Action", "Drama", "Comedy">>,
              <<"ai", "heist", "dream">>, "Christopher Nolan", NoCollection,
              <<174, 923>>),
          None, <<"Warner Bros.", "Legendary">>)
Loner ==
    Named(Rec(7, "Unknown", 0, NoYear, <<>>, <<>>, None, NoCollection, <<>>),
          None, <<>>)
ScoreMovies == {Neo, Sequel, Nameless, Partial, Loner}

\* director names: absent, empty, and spellings of two directors
DirectorNames ==
    {None, "", "Lana Wachowski", "lana wachowski ", "lana wachowski",
     "Christopher Nolan"}

\* lists of names and of company ids, with repeated elements
GenreLists == SeqsUpTo({"Action", "SciFi", "Thriller"}, MaxListLen)
KeywordLists == SeqsUpTo({"ai", "vr", "hacker"}, MaxListLen)
CompanyLists == SeqsUpTo({79, 174, 923}, MaxListLen)

\* arguments of _generate_similarity_reason: sub-scores of 0, 0.3, 1/3, 1/2,
\* 2/3 and 1 (as fractions of SimScale), names that are absent, empty or
\* present, and lists of no, one or four names
ReasonInputs ==
    [genre_sim : {0, SimScale \div 2, (2 * SimScale) \div 3},
     keyword_sim : {0, (3 * SimScale) \div 10, SimScale \div 3},
     director_sim : {0, SimScale},
     collection_sim : {0, SimScale},
     production_company_sim : {0, SimScale \div 2},
     shared_genres :
         {<<>>, <<"Action">>, <<"Action", "SciFi", "Thriller", "Drama">>},
     director1 : {None, "Lana Wachowski"},
     director2 : {None},
     collection1 : {None, "", "The Matrix Collection"},
     collection2 : {None},
     shared_company_names :
         {<<>>, <<"Warner Bros.">>,
          <<"Warner Bros.", "Village Roadshow", "Legendary", "Silver">>}]

\* lists handed to remove_duplicate_movies: movies, two of them two
\* instances of one id
MovieLists == SeqsUpTo({Matrix, Sparse3, Rich3, Rich4}, MaxListLen)

\* lists handed to validate_movie_list: valid records, a record without a
\* title, one with the id 0, one with a negative vote count, and an element
\* that is no mapping
NotAMapping == [not_a_mapping |-> "a string"]
NegativeVotes ==
    Rec(8, "Negative", -1, 2025, <<>>, <<>>, None, NoCollection, <<>>)
RawLists ==
    SeqsUpTo({Rich4, Sparse3, NoTitle, DetailsBad, NegativeVotes, NotAMapping},
             MaxListLen)

\* what get_movies_by_year may answer the movie service: "results" that are
\* not in vote order, that hold an invalid record, that hold only one, or
\* none, each on the last page or with pages to follow
ServicePages ==
    [results : {<<Rich4, Rich3>>, <<NoTitle, Sparse3>>, <<NoTitle>>, <<>>},
     total_pages : {1, DefaultMaxPages + 2}]
PageAnswers == {Raise, Failure} \cup {Answer("ok", p) : p \in ServicePages}

\* details payloads of the movies of these pages: the vote count of the
\* second has grown since the page was served
Details4 ==
    Rec(4, "Inception", 950, 2024, <<"Action", "SciFi", "Thriller">>, <<>>,
        None, NoCollection, <<174>>)
ServiceDetailsAnswers ==
    {Raise, Failure}
        \cup {Answer("ok", <<d>>) : d \in {Details3, Details4, DetailsBad}}

\* entries handed to export_similar_movies_to_csv.  A value that is no dict
\* has the kind "str"; a movie field holds the one-element sequence of its
\* Movie, and the empty sequence where the value is no Movie; the score is
\* None or a number, given by the text str() makes of it
SimilarEntry(kind, original, similar, score) ==
    [kind |-> kind, original_movie |-> original, similar_movie |-> similar,
     similarity_score |-> score]
SimilarEntries ==
    {SimilarEntry("dict", <<Matrix>>, <<Rich3>>, "0.8"),
     SimilarEntry("dict", <<Matrix>>, <<Rich4>>, None),
     SimilarEntry("dict", <<Untitled>>, <<Rich3>>, "0.0"),
     SimilarEntry("dict", <<>>, <<Rich3>>, "0.8"),
     SimilarEntry("dict", <<Matrix>>, <<>>, "0.8"),
     SimilarEntry("str", <<>>, <<>>, None)}
SimilarDatasets == SeqsUpTo(SimilarEntries, MaxListLen)

\* a line of similar_movies.csv: the header, or a row with the cells of the
\* two ids (the decimal text of the id) and of the score
SimilarLine(kind, original, similar, score) ==
    [kind |-> kind, original_movie_id |-> original,
     similar_movie_id |-> similar, similarity_score |-> score]
SimilarHeader == SimilarLine("header", 0, 0, "similarity_score")

\* what a file of that name may hold before the call: nothing, or the
\* header and a row of an earlier run
StaleSimilarFiles ==
    {<<>>, <<SimilarHeader, SimilarLine("row", 9, 8, "0.5")>>}

\* what get_movies_by_year may answer get_and_export_top_movies: a page whose
\* second title begins with an article, a page with an invalid record, each
\* on the last page or with pages to follow
ExportPages ==
    [results : {<<Rich4, Matrix>>, <<NoTitle, Sparse3>>},
     total_pages : {1, DefaultMaxPages + 2}]
ExportPageAnswers == {Raise, Failure} \cup {Answer("ok", p) : p \in ExportPages}

\* a line of top_movies.csv: the header, or a row with the cells of the
\* label, of the id (the decimal text of the id) and of the title
TopLine(kind, sort_method, id, title) ==
    [kind |-> kind, sort_method |-> sort_method, id |-> id, title |-> title]
TopHeader == TopLine("header", "sort_method", 0, "title")

\* what a file of that name may hold before the call: nothing, or the header
\* and a row of an earlier run
StaleTopFiles == {<<>>, <<TopHeader, TopLine("row", "votes", 9, "Old")>>}

\* titles normalize_title_for_sorting is called with: one article, two
\* articles, whitespace around the title and two blanks after the article,
\* listed common words, no article, an article alone, a word that begins
\* with an article
Titles ==
    {<<"The", Space, "Matrix">>,
     <<Space, "The", Space, "The", Space, "Movie", Space>>,
     <<"A", Space, "The", Space, "Movie">>,
     <<"THE", Space, Space, "Matrix">>,
     <<"An", Space, "A-Team">>,
     <<"By", Space, "the", Space, "Sea">>,
     <<"In", Space, "Time">>,
     <<Space, "Matrix", Space>>,
     <<"The">>,
     <<"A-Team">>}

\* weights a configuration may hold: the defaults, weights that sum to more
\* than 1, a negative weight, only negative weights
Weights(g, k, d, c, p) ==
    [genre |-> g, keyword |-> k, director |-> d, collection |-> c,
     production_company |-> p]
WeightConfigs ==
    {DefaultWeights, Weights(500, 500, 500, 500, 500),
     Weights(-300, 100, 100, 300, 200), Weights(-100, -100, -100, -100, -100)}

(***************************************************************************)
(* State                                                                   *)
(***************************************************************************)
VARIABLES
    api_delay,          \* self.api_delay, tenths of a second
    api_calls_made,     \* self.api_calls_made
    pc,                 \* position in find_similar_movies_for_each
    status,             \* how the last call ended: "returned" or "ValueError"
    calls,              \* calls of find_similar_movies_for_each so far
    top_movies, similar_per_movie, strategy,    \* arguments of the call
    i,                  \* loop index over top_movies (1-based, as enumerate)
    results,            \* the list the call builds and returns
    candidates,         \* raw records gathered by the running strategy
    all_candidates,     \* movies gathered by the hybrid strategy
    gi,                 \* index of the genre the same_genre loop is at
    yi,                 \* index into YearOffsets the hybrid loop is at
    pool,               \* candidate pool returned by _get_candidate_pool
    enriched, ci,       \* _enrich_candidates_if_needed: output list, index
    details_data,       \* details payload of the candidate being enriched,
                        \* as a sequence of at most one record
    scored_movies,      \* scored_movies of the last ranking, before the sort
    similar_movies,     \* similar_movies returned by the last ranking
    budget,             \* non-empty payloads the catalog may still deliver
    issued,             \* catalog requests issued during the call
    returned,           \* those of them that returned (payload or None)
    lastEv,             \* last of "req"/"delay" in the running strategy
    yearReqs,           \* years it asked get_movies_by_year for, in order
    genreReqs,          \* filters of its discover_movies requests, in order
    stratReqs,          \* requests issued by the running strategy
    stratFailed,        \* one of them raised or returned None
    delivered,          \* ids of the valid candidates its payloads held
    tlog,               \* per processed target: what happened to it
    weights,            \* self.genre_weight ... self.production_company_weight
    direct,             \* the last direct call of a scoring or model function:
                        \* its name, arguments and result
    svc,                \* MovieService.get_top_movies_by_year: position,
                        \* arguments, locals and outcome of the call
    req,                \* TMDBClient: configuration, position in
                        \* _make_request, attempts and waits so far, outcome
    file                \* the CSV file the export service writes

\* what no step of find_similar_movies_for_each changes
outerVars == <<api_delay, weights, direct, svc, req, file>>
engineVars == <<outerVars, api_calls_made>>
callVars == <<status, calls, top_movies, similar_per_movie, strategy>>
stratVars == <<candidates, all_candidates, gi, yi>>
enrichVars == <<enriched, ci, details_data>>
rankVars == <<scored_movies, similar_movies>>
vars ==
    <<api_delay, api_calls_made, pc, status, calls, top_movies,
      similar_per_movie, strategy, i, results, candidates, all_candidates, gi,
      yi, pool, enriched, ci, details_data, scored_movies, similar_movies,
      budget, issued, returned, lastEv, yearReqs, genreReqs, stratReqs, stratFailed,
      delivered, tlog, weights, direct, svc, req, file>>

\* observations of the requests and delays, not state of the program
obsVars ==
    <<budget, issued, returned, lastEv, yearReqs, genreReqs, stratReqs, stratFailed,
      delivered>>

NoCall == [fn |-> "none", args |-> <<>>, result |-> <<>>]

\* the movie service before get_top_movies_by_year is called
IdleService ==
    [pc |-> "idle", status |-> "none", top_n |-> 0, page |-> 1,
     all_movies |-> <<>>, top_movies |-> <<>>, k |-> 1,
     details_data |-> <<>>, enriched_movies |-> <<>>,
     \* data of the last page request, as a sequence of at most one payload,
     \* and the pages requested so far
     data |-> <<>>, requested |-> <<>>,
     \* whether the call is the one of get_and_export_top_movies
     exporting |-> FALSE]

\* no TMDBClient constructed yet
NoClient ==
    [pc |-> "new", max_retries |-> DefaultMaxRetries,
     retry_delay |-> DefaultRetryDelay, attempt |-> 0, log |-> <<>>,
     result |-> "none", data |-> "none"]

\* no file of the export's name exists
NoFile == [exists |-> FALSE, lines |-> <<>>]

\* __init__ with the weights of the configuration among ws
Constructed(ws) ==
    /\ api_delay \in ApiDelays
    /\ weights \in ws
    /\ direct = NoCall
    /\ svc = IdleService
    /\ req = NoClient
    /\ file = NoFile
    /\ api_calls_made = 0
    /\ pc = "idle"
    /\ status = "none"
    /\ calls = 0
    /\ top_movies = <<>>
    /\ similar_per_movie = DefaultSimilarPerMovie
    /\ strategy = "hybrid"
    /\ i = 1
    /\ results = <<>>
    /\ candidates = <<>>
    /\ all_candidates = <<>>
    /\ gi = 1
    /\ yi = 1
    /\ pool = <<>>
    /\ enriched = <<>>
    /\ ci = 1
    /\ details_data = <<>>
    /\ scored_movies = <<>>
    /\ similar_movies = <<>>
    /\ budget = 0
    /\ issued = 0
    /\ returned = 0
    /\ stratReqs = 0
    /\ stratFailed = FALSE
    /\ delivered = {}
    /\ lastEv = "none"
    /\ yearReqs = <<>> /\ genreReqs = <<>>
    /\ tlog = <<>>

\* the engine of the default configuration
Init == Constructed({DefaultWeights})

Target == top_movies[i]

\* time.sleep(self.api_delay) raises ValueError for a negative delay
SleepRaises == api_delay < 0

\* no strategy check at the entry
StrategyNotChecked(s) == TRUE

\* line 99: the strategy check of find_similar_movies_for_each
StrategyIsValid(s) == s \in ValidStrategies

(***************************************************************************)
(* End of the processing of one target: the loop moves to the next target  *)
(* or the call reaches its return statement.                               *)
(***************************************************************************)
LogEntry(assembled, poolSize, scored, raised, entry, delayed) ==
    [target |-> i, reqs |-> stratReqs', assembled |-> assembled,
     pool |-> poolSize, scored |-> scored, raised |-> raised, entry |-> entry,
     delayAfter |-> delayed]

NextTarget(entry) ==
    /\ tlog' = Append(tlog, entry)
    /\ i' = i + 1
    /\ pc' = IF i < Len(top_movies) THEN "target" ELSE "done"

\* no handler around the loop body: the exception ends the call
ExceptionEscapes(stage) ==
    /\ tlog' = Append(tlog, LogEntry(FALSE, 0, 0, stage, FALSE, FALSE))
    /\ i' = i
    /\ pc' = "aborted"

\* lines 155-159: except Exception: log and continue
ExceptTarget(stage) ==
    NextTarget(LogEntry(FALSE, 0, 0, stage, FALSE, FALSE))

\* a strategy returns pool p to find_similar_movies_for_each (lines 120-129):
\* an empty pool skips the target, any other pool goes on to the ranking
ReturnPool(p) ==
    /\ pool' = p
    /\ IF p = <<>>
       THEN NextTarget(LogEntry(TRUE, 0, 0, "none", FALSE, FALSE))
       ELSE pc' = "enrich" /\ UNCHANGED <<i, tlog>>

\* what a request adds to the counter: the increment follows the client call
\* inside the try block, so a call that raises is not counted
Counted(ans) ==
    IF ans.kind = "raise" THEN api_calls_made ELSE api_calls_made + 1

\* the "results" of an answer; None and an exception deliver nothing
Payload(ans) == IF ans.kind = "ok" THEN ans.data ELSE <<>>

\* the catalog answers a request with ans: a non-empty list or details payload
\* is taken from the budget
Delivers(ans, large) ==
    /\ (large /\ ans.kind = "ok" /\ ans.data # <<>>) => budget > 0
    /\ budget' = IF large /\ ans.kind = "ok" /\ ans.data # <<>>
                 THEN budget - 1 ELSE budget
    /\ issued' = issued + 1
    /\ returned' = IF ans.kind = "raise" THEN returned ELSE returned + 1

\* ids of the records of a payload that validate and, for the similar and
\* recommendations endpoints, have the minimum vote count
DeliveredIds(ans, voteFiltered) ==
    IF ans.kind # "ok" THEN {}
    ELSE {ans.data[j].id : j \in
            {n \in 1..Len(ans.data) :
                /\ ValidRecord(ans.data[n])
                /\ voteFiltered => ans.data[n].vote_count >= MinVoteCount}}

\* a request of a candidate selection strategy is answered with ans
StrategyRequest(ans, voteFiltered) ==
    /\ Delivers(ans, TRUE)
    /\ stratReqs' = stratReqs + 1
    /\ stratFailed' = (stratFailed \/ ans.kind # "ok")
    /\ delivered' = delivered \cup DeliveredIds(ans, voteFiltered)

\* a request of the enrichment is answered with ans
EnrichRequest(ans, large) ==
    /\ Delivers(ans, large)
    /\ UNCHANGED <<lastEv, yearReqs, genreReqs, stratReqs, stratFailed, delivered>>

\* a failed request discards what the earlier requests gathered
ExtendFilteredOrReset(cands, ans) ==
    IF ans.kind = "ok" THEN cands \o FilterByVotes(ans.data) ELSE <<>>

\* lines 221-229, 245-253: candidates.extend(filtered), skipped when the
\* request raised or returned no results
ExtendFiltered(cands, ans) == cands \o FilterByVotes(Payload(ans))

\* candidates.extend(movies_data) without the slice
ExtendWhole(cands, ans, limit) == cands \o Payload(ans)

\* lines 317-320, 389-392, 471-475: candidates.extend(movies_data[:limit])
ExtendTop(cands, ans, limit) == cands \o Take(Payload(ans), limit)

\* the counter is not reset
CounterKept(old) == old

\* line 110: self.api_calls_made = 0
CounterAtStart(old) == 0

\* validate, de-duplicate, exclude the target (lines 260-265, 405-410)
UniqueCandidates(rs, target) ==
    ExcludeTarget(RemoveDuplicateMovies(ValidateMovieList(rs)), target)

\* lines 327-331: the same_year strategy validates and excludes the target
SameYearCandidates(rs, target) == ExcludeTarget(ValidateMovieList(rs), target)

\* lines 488-490: the final step of the hybrid strategy
HybridPool(ms, target) == ExcludeTarget(RemoveDuplicateMovies(ms), target)

\* a range test that admits the year 1900
NearbyYearFrom1900(y) == y >= MinNearbyYear /\ y <= MaxNearbyYear

\* line 460: the range test of a neighbouring year
NearbyYearInRange(y) == y > MinNearbyYear /\ y <= MaxNearbyYear

\* first index >= from of YearOffsets whose year passes the range test
RECURSIVE NextOffset(_, _)
NextOffset(year, from) ==
    IF from > Len(YearOffsets) THEN from
    ELSE IF NearbyYearInRange(year + YearOffsets[from]) THEN from
    ELSE NextOffset(year, from + 1)

\* a same_year strategy that does not test the release year
YearNotTested(t) == FALSE

\* line 293: if not target_movie.release_year
HasNoYear(t) == t.release_year = NoYear

\* line 359: if not target_movie.genres or len(target_movie.genres) == 0
HasNoGenres(t) == t.genres = <<>>

\* lines 889-893
NeedsEnrichment(c) ==
    c.genres = <<>> \/ c.keywords = <<>> \/ c.director = None

(***************************************************************************)
(* find_similar_movies_for_each: entry (lines 99-111)                      *)
(***************************************************************************)
\* a call with top_movies drawn from lists and similar_per_movie from ks,
\* during which the catalog delivers at most payloads non-empty payloads
FindSimilarMoviesForEach(lists, ks, payloads) ==
    /\ pc = "idle"
    /\ \E tm \in lists, k \in ks, s \in Strategies :
         /\ top_movies' = tm
         /\ similar_per_movie' = k
         /\ strategy' = s
         /\ IF StrategyIsValid(s)
            THEN /\ api_calls_made' = CounterAtStart(api_calls_made)
                 /\ status' = "running"
                 /\ pc' = IF tm = <<>> THEN "done" ELSE "target"
            ELSE /\ status' = "ValueError"
                 /\ pc' = "idle"
                 /\ UNCHANGED api_calls_made
    /\ calls' = calls + 1
    /\ i' = 1
    /\ results' = <<>>
    /\ candidates' = <<>> /\ all_candidates' = <<>> /\ gi' = 1 /\ yi' = 1
    /\ pool' = <<>> /\ enriched' = <<>> /\ ci' = 1 /\ details_data' = <<>>
    /\ scored_movies' = <<>> /\ similar_movies' = <<>>
    /\ budget' = payloads /\ issued' = 0 /\ returned' = 0
    /\ lastEv' = "none" /\ stratReqs' = 0 /\ stratFailed' = FALSE
    /\ yearReqs' = <<>> /\ genreReqs' = <<>>
    /\ delivered' = {} /\ tlog' = <<>>
    /\ UNCHANGED outerVars

\* the first call on the engine, for one target
Call ==
    /\ calls = 0
    /\ FindSimilarMoviesForEach({<<t>> : t \in Targets}, 1..MaxK, MaxPayloads)

\* the first call on the engine, for one target of any release year
CallYears ==
    /\ calls = 0
    /\ FindSimilarMoviesForEach({<<t>> : t \in YearTargets},
                                {DefaultSimilarPerMovie}, MaxPayloads)

\* the first call on the engine, with the same_genre strategy, for one target
\* of any number of genres
CallGenres ==
    /\ calls = 0
    /\ FindSimilarMoviesForEach({<<t>> : t \in GenreTargets},
                                {DefaultSimilarPerMovie}, MaxPayloads)
    /\ strategy' = "same_genre"

\* the first call on the engine, for a list of targets and the default
\* similar_per_movie
CallBatch ==
    /\ calls = 0
    /\ FindSimilarMoviesForEach(SeqsUpTo(Targets, MaxTargets),
                                {DefaultSimilarPerMovie}, MaxPayloads)

\* one of a sequence of calls on the engine, for at most one target
CallAgain ==
    /\ calls < MaxCalls
    /\ FindSimilarMoviesForEach({<<>>} \cup {<<t>> : t \in Targets},
                                {DefaultSimilarPerMovie}, MaxPayloads)

(***************************************************************************)
(* Start of one loop iteration and dispatch of _get_candidate_pool         *)
(* (lines 113-120, 181-190, 293-297, 359-363)                              *)
(***************************************************************************)
StartTarget ==
    /\ pc = "target"
    /\ candidates' = <<>> /\ all_candidates' = <<>> /\ gi' = 1 /\ yi' = 1
    /\ enriched' = <<>> /\ ci' = 1 /\ details_data' = <<>>
    /\ scored_movies' = <<>> /\ similar_movies' = <<>>
    /\ lastEv' = "none" /\ stratReqs' = 0 /\ stratFailed' = FALSE /\ delivered' = {}
    /\ yearReqs' = <<>> /\ genreReqs' = <<>>
    /\ CASE strategy \in {"tmdb_api", "hybrid"} ->
              pc' = "similar" /\ pool' = <<>> /\ UNCHANGED <<i, tlog>>
         [] strategy = "same_year" ->
              IF HasNoYear(Target)
              THEN ReturnPool(<<>>)
              ELSE pc' = "same_year" /\ pool' = <<>> /\ UNCHANGED <<i, tlog>>
         [] strategy = "same_genre" ->
              IF HasNoGenres(Target)
              THEN ReturnPool(<<>>)
              ELSE pc' = "genre" /\ pool' = <<>> /\ UNCHANGED <<i, tlog>>
         [] OTHER -> pool' = <<>> /\ ExceptTarget("pool")
    /\ UNCHANGED <<engineVars, callVars, results, budget, issued, returned>>

(***************************************************************************)
(* _get_candidates_from_tmdb_api (lines 214-272), also the first step of   *)
(* the hybrid strategy (lines 444-447)                                     *)
(***************************************************************************)
GetSimilarMovies ==
    /\ pc = "similar"
    /\ \E ans \in ListAnswers :
         /\ StrategyRequest(ans, TRUE)
         /\ api_calls_made' = Counted(ans)
         /\ candidates' = ExtendFiltered(candidates, ans)
    /\ IF SleepRaises
       THEN lastEv' = "req" /\ ExceptTarget("pool")
       ELSE lastEv' = "delay" /\ pc' = "recs" /\ UNCHANGED <<i, tlog>>
    /\ UNCHANGED <<yearReqs, genreReqs>>
    /\ UNCHANGED <<outerVars, callVars, results, all_candidates, gi, yi, pool,
                   enrichVars, rankVars>>

GetMovieRecommendations ==
    /\ pc = "recs"
    /\ \E ans \in ListAnswers :
         LET cands == ExtendFiltered(candidates, ans)
             unique == UniqueCandidates(cands, Target)
         IN /\ StrategyRequest(ans, TRUE)
            /\ api_calls_made' = Counted(ans)
            /\ candidates' = cands
            /\ IF strategy = "tmdb_api"
               THEN ReturnPool(unique) /\ UNCHANGED all_candidates
               ELSE /\ all_candidates' = unique
                    /\ IF Target.release_year # NoYear
                       THEN pc' = "same_year" /\ UNCHANGED <<pool, i, tlog>>
                       ELSE ReturnPool(HybridPool(unique, Target))
    /\ lastEv' = "req"
    /\ UNCHANGED <<outerVars, callVars, results, gi, yi, enrichVars, rankVars,
                   yearReqs, genreReqs>>

(***************************************************************************)
(* _get_candidates_same_year (lines 304-338), also the second step of the  *)
(* hybrid strategy (lines 450-455)                                         *)
(***************************************************************************)
GetMoviesByYear ==
    /\ pc = "same_year"
    /\ \E ans \in ListAnswers :
         LET cands == ExtendTop(<<>>, ans, SameYearLimit)
             movies == SameYearCandidates(cands, Target)
             all == all_candidates \o movies
             y == NextOffset(Target.release_year, 1)
         IN /\ StrategyRequest(ans, FALSE)
            /\ api_calls_made' = Counted(ans)
            /\ candidates' = cands
            /\ IF strategy = "same_year"
               THEN ReturnPool(movies) /\ UNCHANGED <<all_candidates, yi>>
               ELSE /\ all_candidates' = all
                    /\ yi' = y
                    /\ IF y > Len(YearOffsets)
                       THEN ReturnPool(HybridPool(all, Target))
                       ELSE pc' = "nearby" /\ UNCHANGED <<pool, i, tlog>>
    /\ lastEv' = "req"
    /\ yearReqs' = Append(yearReqs, Target.release_year)
    /\ UNCHANGED genreReqs
    /\ UNCHANGED <<outerVars, callVars, results, gi, enrichVars, rankVars>>

(***************************************************************************)
(* _get_candidates_hybrid: one neighbouring year (lines 458-497)           *)
(***************************************************************************)
NearbyYear(answers) ==
    /\ pc = "nearby"
    /\ \E ans \in answers :
         LET all == all_candidates
                        \o ValidateMovieList(ExtendTop(<<>>, ans, NearbyLimit))
             y == NextOffset(Target.release_year, yi + 1)
         IN /\ StrategyRequest(ans, FALSE)
            /\ api_calls_made' = Counted(ans)
            /\ all_candidates' = all
            /\ yi' = y
            \* the sleep is inside the try block, after the request
            /\ lastEv' = IF ans.kind = "raise" \/ SleepRaises THEN "req" ELSE "delay"
            /\ yearReqs' = Append(yearReqs, Target.release_year + YearOffsets[yi])
            /\ UNCHANGED genreReqs
            /\ IF y > Len(YearOffsets)
               THEN ReturnPool(HybridPool(all, Target))
               ELSE pc' = "nearby" /\ UNCHANGED <<pool, i, tlog>>
    /\ UNCHANGED <<outerVars, callVars, results, candidates, gi, enrichVars,
                   rankVars>>

GetNearbyYear == NearbyYear(ListAnswers)

\* the same request, answered with a page longer than the strategy takes
GetNearbyYearLong == NearbyYear(LongAnswers)

(***************************************************************************)
(* _get_candidates_same_genre: one genre (lines 373-417)                   *)
(***************************************************************************)
\* discover_movies (TMDB.py, lines 193-212): the filters of the request; the
\* year filter is set only for a year that is not None
DiscoverParams(year, with_genres) ==
    IF year # NoYear
    THEN [with_genres |-> with_genres, primary_release_year |-> year]
    ELSE [with_genres |-> with_genres]

\* the request for genre gi is answered with one of answers
Discover(answers) ==
    /\ pc = "genre"
    /\ \E ans \in answers :
         LET cands == ExtendTop(candidates, ans, GenreLimit) IN
         /\ StrategyRequest(ans, FALSE)
         /\ api_calls_made' = Counted(ans)
         /\ candidates' = cands
         /\ lastEv' = IF ans.kind = "raise" \/ SleepRaises THEN "req" ELSE "delay"
         /\ UNCHANGED yearReqs
         /\ genreReqs' = Append(genreReqs,
                                DiscoverParams(Target.release_year,
                                               Target.genres[gi]))
         /\ IF gi < Len(Take(Target.genres, GenresToUse))
            THEN gi' = gi + 1 /\ pc' = "genre" /\ UNCHANGED <<pool, i, tlog>>
            ELSE gi' = gi /\ ReturnPool(UniqueCandidates(cands, Target))
    /\ UNCHANGED <<outerVars, callVars, results, all_candidates, yi,
                   enrichVars, rankVars>>

DiscoverMovies == Discover(ListAnswers)

\* the same request, answered with a page longer than the strategy takes
DiscoverMoviesLong == Discover(LongGenreAnswers)

(***************************************************************************)
(* _enrich_candidates_if_needed (lines 883-943)                            *)
(***************************************************************************)
\* the enrichment of candidate ci ends with the movies ms appended
EnrichDone(ms) ==
    /\ enriched' = enriched \o ms
    /\ ci' = ci + 1
    /\ details_data' = <<>>
    /\ pc' = "enrich"

\* loop head: a candidate that has genres, keywords and a director is kept
EnrichNext ==
    /\ pc = "enrich"
    /\ IF ci > Len(pool)
       THEN pc' = "rank" /\ UNCHANGED enrichVars
       ELSE IF NeedsEnrichment(pool[ci])
            THEN pc' = "details" /\ UNCHANGED enrichVars
            ELSE EnrichDone(<<pool[ci]>>)
    /\ UNCHANGED <<engineVars, callVars, i, results, stratVars, pool, rankVars,
                   obsVars, tlog>>

GetMovieDetails ==
    /\ pc = "details"
    /\ \E ans \in DetailsAnswers :
         /\ EnrichRequest(ans, TRUE)
         /\ api_calls_made' = Counted(ans)
         /\ IF ans.kind # "ok"
            THEN EnrichDone(<<pool[ci]>>)
            ELSE /\ details_data' = ans.data
                 /\ pc' = "keywords"
                 /\ UNCHANGED <<enriched, ci>>
    /\ UNCHANGED <<outerVars, callVars, i, results, stratVars, pool, rankVars,
                   tlog>>

GetMovieKeywords ==
    /\ pc = "keywords"
    /\ \E ans \in KeywordsAnswers :
         /\ EnrichRequest(ans, FALSE)
         /\ api_calls_made' = Counted(ans)
         /\ IF ans.kind = "raise"
            THEN EnrichDone(<<pool[ci]>>)
            ELSE /\ details_data' =
                        IF ans.kind = "none" THEN details_data
                        ELSE [details_data EXCEPT ![1].keywords = ans.data]
                 /\ pc' = "credits"
                 /\ UNCHANGED <<enriched, ci>>
    /\ UNCHANGED <<outerVars, callVars, i, results, stratVars, pool, rankVars,
                   tlog>>

\* lines 917-941: credits, rebuild of the movie, delay; every exception of the
\* block, the one of the delay included, appends the original candidate
GetMovieCredits ==
    /\ pc = "credits"
    /\ \E ans \in CreditsAnswers :
         LET data == IF ans.kind = "ok" /\ ans.data # <<>>
                     THEN [details_data[1] EXCEPT !.director = ans.data[1]]
                     ELSE details_data[1]
         IN /\ EnrichRequest(ans, FALSE)
            /\ api_calls_made' = Counted(ans)
            /\ IF ans.kind = "raise" \/ ~ValidRecord(data)
               THEN EnrichDone(<<pool[ci]>>)
               ELSE IF SleepRaises
                    THEN EnrichDone(<<MovieFromTmdbResponse(data), pool[ci]>>)
                    ELSE EnrichDone(<<MovieFromTmdbResponse(data)>>)
    /\ UNCHANGED <<outerVars, callVars, i, results, stratVars, pool, rankVars,
                   tlog>>

(***************************************************************************)
(* Scoring, ranking, the result entry and the delay between targets        *)
(* (lines 534-574 and 138-153)                                             *)
(***************************************************************************)
\* an entry is appended whatever the ranking returned
AppendAlways(rs, target, top) ==
    Append(rs, [original_movie |-> target, similar_movies |-> top])

\* line 138: an entry is appended only for a non-empty similar_movies list
AppendEntry(rs, target, top) ==
    IF top # <<>>
    THEN Append(rs, [original_movie |-> target, similar_movies |-> top])
    ELSE rs

Rank ==
    /\ pc = "rank"
    /\ UNCHANGED <<engineVars, callVars, stratVars, pool, enrichVars, obsVars>>
    /\ LET scored == ScoreCandidates(weights, Target, enriched)
           top == TopSimilar(scored, similar_per_movie)
           more == i < Len(top_movies)
           new == AppendEntry(results, Target, top)
           added == Len(new) > Len(results)
       IN /\ scored_movies' = scored
          /\ similar_movies' = top
          /\ results' = new
          \* lines 152-153: the delay is inside the try block
          /\ IF more /\ SleepRaises
             THEN NextTarget(LogEntry(TRUE, Len(pool), Len(scored), "delay",
                                      added, FALSE))
             ELSE NextTarget(LogEntry(TRUE, Len(pool), Len(scored), "none",
                                      added, more))

\* line 166: return results
Return ==
    /\ pc = "done"
    /\ pc' = "idle"
    /\ status' = "returned"
    /\ UNCHANGED <<engineVars, calls, top_movies, similar_per_movie, strategy,
                   i, results, stratVars, pool, enrichVars, rankVars, obsVars,
                   tlog>>

(***************************************************************************)
(* Direct calls of the scoring functions                                   *)
(***************************************************************************)
callState ==
    <<api_delay, weights, api_calls_made, pc, status, calls, top_movies,
      similar_per_movie, strategy, i, results, candidates, all_candidates, gi,
      yi, pool, enriched, ci, details_data, scored_movies, similar_movies,
      budget, issued, returned, lastEv, yearReqs, genreReqs, stratReqs, stratFailed,
      delivered, tlog>>

\* the functions called this way read the weights at most and write nothing,
\* so one call on the constructed engine stands for a call at any time
NotCalled == pc = "idle" /\ direct = NoCall

Direct(fn, args, result) ==
    /\ direct' = [fn |-> fn, args |-> args, result |-> result]
    /\ UNCHANGED <<callState, svc, req, file>>

CalculateSimilarityScoreCall ==
    /\ NotCalled
    /\ \E t \in ScoreMovies, c \in ScoreMovies :
            Direct("calculate_similarity_score", <<t, c>>,
                   [similarity_score |-> CalculateSimilarityScore(weights, t, c),
                    metrics |-> Metrics(t, c)])

GenerateSimilarityReasonCall ==
    /\ NotCalled
    /\ \E a \in ReasonInputs :
            Direct("_generate_similarity_reason", a,
                   GenerateSimilarityReason(
                       a.genre_sim, a.keyword_sim, a.director_sim,
                       a.collection_sim, a.production_company_sim,
                       a.shared_genres, a.director1, a.director2,
                       a.collection1, a.collection2, a.shared_company_names))

CalculateGenreSimilarityCall ==
    /\ NotCalled
    /\ \E genres1 \in GenreLists, genres2 \in GenreLists :
            Direct("_calculate_genre_similarity", <<genres1, genres2>>,
                   CalculateGenreSimilarity(genres1, genres2))

CalculateKeywordSimilarityCall ==
    /\ NotCalled
    /\ \E keywords1 \in KeywordLists, keywords2 \in KeywordLists :
            Direct("_calculate_keyword_similarity", <<keywords1, keywords2>>,
                   CalculateKeywordSimilarity(keywords1, keywords2))

CalculateProductionCompanySimilarityCall ==
    /\ NotCalled
    /\ \E companies1 \in CompanyLists, companies2 \in CompanyLists :
            Direct("_calculate_production_company_similarity",
                   <<companies1, companies2>>,
                   CalculateProductionCompanySimilarity(companies1, companies2))

CalculateDirectorSimilarityCall ==
    /\ NotCalled
    /\ \E director1 \in DirectorNames, director2 \in DirectorNames :
            Direct("_calculate_director_similarity", <<director1, director2>>,
                   CalculateDirectorSimilarity(director1, director2))

(***************************************************************************)
(* TMDBClient._make_request (TMDB.py, lines 49-101); one action per HTTP   *)
(* attempt, with the handling of its outcome.                              *)
(***************************************************************************)
\* api.retry_delay of the configuration, which __init__ takes as it is
RetryDelays == {DefaultRetryDelay, 2 * DefaultRetryDelay, -DefaultRetryDelay}

\* how an attempt may end: response.json() returns a payload, or the request,
\* raise_for_status or json raises a RequestException
Outcomes ==
    [kind : {"ok"}, data : {"page A", "page B"}] \cup
    [kind : {"Timeout", "ConnectionError", "HTTPError"}, data : {"none"}]

\* an entry of the log: attempt number n with its outcome, or a sleep of n
Event(ev, n, outcome, data) ==
    [ev |-> ev, n |-> n, outcome |-> outcome, data |-> data]

\* a handler that waits after every failed attempt
AlwaysWaits(r) == TRUE

\* line 95: attempt < self.max_retries - 1
HasAttemptsLeft(r) == r.attempt < r.max_retries - 1

\* __init__ (lines 34-36)
NewTMDBClient ==
    /\ req.pc = "new"
    /\ \E m \in 0..MaxRetriesBound, d \in RetryDelays :
         req' = [req EXCEPT !.pc = "idle", !.max_retries = m,
                            !.retry_delay = d]
    /\ UNCHANGED <<callState, direct, svc, file>>

\* lines 66-76: entry of _make_request; range(0) runs no attempt and the call
\* returns None at line 101
MakeRequest ==
    /\ req.pc = "idle"
    /\ req' = IF req.max_retries <= 0
              THEN [req EXCEPT !.pc = "done", !.result = "None"]
              ELSE [req EXCEPT !.pc = "attempt", !.attempt = 0]
    /\ UNCHANGED <<callState, direct, svc, file>>

\* lines 77-99: one iteration of the loop.  time.sleep raises ValueError for a
\* negative length, inside the handler, so that exception leaves the call
SessionRequest ==
    /\ req.pc = "attempt"
    /\ \E out \in Outcomes :
         LET n == req.attempt + 1
             tried == [req EXCEPT !.log =
                          Append(@, Event("attempt", n, out.kind, out.data))]
             slept == [tried EXCEPT !.attempt = n, !.log =
                          Append(@, Event("sleep", req.retry_delay * n,
                                          "slept", "none"))]
         IN req' =
              IF out.kind = "ok"
              THEN [tried EXCEPT !.pc = "done", !.result = "data",
                                 !.data = out.data]
              ELSE IF ~HasAttemptsLeft(req)
              THEN [tried EXCEPT !.pc = "done", !.result = "None"]
              ELSE IF req.retry_delay * n < 0
              THEN [tried EXCEPT !.pc = "done", !.result = "ValueError"]
              ELSE IF n < req.max_retries
              THEN [slept EXCEPT !.pc = "attempt"]
              \* line 101: the loop ran out
              ELSE [slept EXCEPT !.pc = "done", !.result = "None"]
    /\ UNCHANGED <<callState, direct, svc, file>>

(***************************************************************************)
(* ExportService.export_similar_movies_to_csv (export_service.py, lines    *)
(* 150-272) and the file it writes.                                        *)
(***************************************************************************)
\* a file of the name is there before the call
ExistingFile(contents) ==
    /\ NotCalled
    /\ svc = IdleService
    /\ file = NoFile
    /\ \E lines \in contents : file' = [exists |-> TRUE, lines |-> lines]
    /\ UNCHANGED <<callState, direct, svc, req>>

ExistingSimilarMovies == ExistingFile(StaleSimilarFiles)

\* an open that keeps what the file holds
OpenA(lines) == lines

\* line 206: open(filepath, "w") truncates
OpenW(lines) == <<>>

\* lines 211-227: the entries a row is written for
ValidSimilarEntry(e) ==
    e.kind = "dict" /\ e.original_movie # <<>> /\ e.similar_movie # <<>>

\* lines 230-269: the row of an entry
SimilarRow(e) ==
    SimilarLine("row", e.original_movie[1].id, e.similar_movie[1].id,
                IF e.similarity_score = None THEN ""
                ELSE e.similarity_score)

\* lines 206-269: header and rows
WriteSimilar(lines, data) ==
    LET valid == SelectSeq(data, ValidSimilarEntry)
    IN OpenW(lines) \o <<SimilarHeader>>
           \o [j \in 1..Len(valid) |-> SimilarRow(valid[j])]

ExportSimilarMoviesToCsv ==
    /\ NotCalled
    /\ \E data \in SimilarDatasets :
         /\ direct' = [fn |-> "export_similar_movies_to_csv",
                       args |-> [data |-> data, file |-> file],
                       result |-> IF data = <<>> THEN "ValueError"
                                  ELSE "similar_movies.csv"]
         /\ file' = IF data = <<>> THEN file
                    ELSE [exists |-> TRUE,
                          lines |-> WriteSimilar(file.lines, data)]
    /\ UNCHANGED <<callState, svc, req>>

SimilarExportNext ==
    \/ ExistingSimilarMovies
    \/ ExportSimilarMoviesToCsv

SimilarExportSpec == Init /\ [][SimilarExportNext]_vars

ClientNext ==
    \/ NewTMDBClient
    \/ MakeRequest
    \/ SessionRequest

ClientSpec == Init /\ [][ClientNext]_vars

(***************************************************************************)
(* MovieService.get_top_movies_by_year (movie_service.py, lines 85-162)    *)
(* with _enrich_movies_with_details (lines 35-83); one action per catalog  *)
(* request.                                                                *)
(***************************************************************************)
\* sorted(all_movies, key=lambda m: m.vote_count, reverse=True): stable
RECURSIVE InsertByVotes(_, _)
InsertByVotes(x, sorted) ==
    IF sorted = <<>> THEN <<x>>
    ELSE IF Head(sorted).vote_count >= x.vote_count
         THEN <<Head(sorted)>> \o InsertByVotes(x, Tail(sorted))
         ELSE <<x>> \o sorted

RECURSIVE SortByVotesDesc(_)
SortByVotesDesc(s) ==
    IF s = <<>> THEN <<>>
    ELSE InsertByVotes(s[Len(s)], SortByVotesDesc(SubSeq(s, 1, Len(s) - 1)))

\* a page loop without the limit of data.max_pages
MorePagesUnlimited(s) == Len(s.all_movies) < s.top_n * 2

\* line 122: the condition of the page loop
MorePages(s) ==
    s.page <= DefaultMaxPages /\ Len(s.all_movies) < s.top_n * 2

\* a call that returns the empty list where nothing was collected
ReturnEmpty(s) ==
    [s EXCEPT !.pc = "done", !.status = "returned"]

\* lines 151-152: no movie collected raises ValueError
RaiseEmpty(s) ==
    [s EXCEPT !.pc = "done", !.status = "ValueError"]

\* lines 151-162 up to the first details request
Select(s) ==
    IF s.all_movies = <<>> THEN RaiseEmpty(s)
    ELSE LET top == Take(SortByVotesDesc(s.all_movies), s.top_n)
         IN IF top = <<>>
            THEN [s EXCEPT !.pc = "done", !.status = "returned",
                           !.top_movies = top]
            ELSE [s EXCEPT !.pc = "details", !.top_movies = top, !.k = 1]

\* the page loop goes on with a request or ends
Loop(s) == IF MorePages(s) THEN [s EXCEPT !.pc = "page"] ELSE Select(s)

\* enriched_movies.append(m) and the next movie of the loop, or the return
Enriched(s, m) ==
    LET t == [s EXCEPT !.enriched_movies = Append(@, m),
                       !.details_data = <<>>]
    IN IF s.k < Len(s.top_movies)
       THEN [t EXCEPT !.k = @ + 1, !.pc = "details"]
       ELSE [t EXCEPT !.pc = "done", !.status = "returned"]

ServiceStep(s) == svc' = s /\ UNCHANGED <<callState, direct, req, file>>

GetTopMoviesByYear ==
    /\ pc = "idle"
    /\ svc = IdleService
    /\ \E top_n \in 0..MaxTopN :
         ServiceStep(Loop([svc EXCEPT !.top_n = top_n]))

\* lines 123-149: one page
GetMoviesByYearPage(answers) ==
    /\ svc.pc = "page"
    /\ \E ans \in answers :
         LET asked == [svc EXCEPT !.requested = Append(@, svc.page)]
             got == [asked EXCEPT !.data = IF ans.kind = "ok" THEN <<ans.data>>
                                           ELSE <<>>]
         IN ServiceStep(
             IF ans.kind = "raise"
             THEN [asked EXCEPT !.pc = "done", !.status = "exception"]
             ELSE IF ans.kind = "none" \/ ans.data.results = <<>>
             THEN Select(got)
             ELSE LET s == [got EXCEPT !.all_movies =
                                @ \o ValidateMovieList(ans.data.results)]
                  IN IF s.page >= ans.data.total_pages THEN Select(s)
                     ELSE Loop([s EXCEPT !.page = @ + 1]))

ServiceGetMoviesByYear == GetMoviesByYearPage(PageAnswers)

\* lines 50-54
ServiceGetMovieDetails ==
    /\ svc.pc = "details"
    /\ \E ans \in ServiceDetailsAnswers :
         ServiceStep(
             IF ans.kind = "ok"
             THEN [svc EXCEPT !.details_data = ans.data, !.pc = "keywords"]
             ELSE Enriched(svc, svc.top_movies[svc.k]))

\* lines 57-59
ServiceGetMovieKeywords ==
    /\ svc.pc = "keywords"
    /\ \E ans \in KeywordsAnswers :
         ServiceStep(
             IF ans.kind = "raise"
             THEN Enriched(svc, svc.top_movies[svc.k])
             ELSE [svc EXCEPT !.pc = "credits",
                              !.details_data =
                                  IF ans.kind = "none" THEN @
                                  ELSE [@ EXCEPT ![1].keywords = ans.data]])

\* lines 62-81: credits and the rebuild of the movie; every exception of the
\* block appends the original movie
ServiceGetMovieCredits ==
    /\ svc.pc = "credits"
    /\ \E ans \in CreditsAnswers :
         LET data == IF ans.kind = "ok" /\ ans.data # <<>>
                     THEN [svc.details_data[1] EXCEPT !.director = ans.data[1]]
                     ELSE svc.details_data[1]
         IN ServiceStep(
                IF ans.kind = "raise" \/ ~ValidRecord(data)
                THEN Enriched(svc, svc.top_movies[svc.k])
                ELSE Enriched(svc, MovieFromTmdbResponse(data)))

ServiceNext ==
    \/ GetTopMoviesByYear
    \/ ServiceGetMoviesByYear
    \/ ServiceGetMovieDetails
    \/ ServiceGetMovieKeywords
    \/ ServiceGetMovieCredits

ServiceSpec == Init /\ [][ServiceNext]_vars

(***************************************************************************)
(* MovieService.get_and_export_top_movies (movie_service.py, lines         *)
(* 225-294) with prepare_movies_for_export (lines 193-223) and             *)
(* ExportService.export_movies_to_csv (export_service.py, lines 90-148).   *)
(***************************************************************************)
ExistingTopMovies == ExistingFile(StaleTopFiles)

\* lines 206-223 for the three labels the workflow uses
PrepareMoviesForExport(movies, sort_method) ==
    LET sorted_movies ==
            IF sort_method = "votes" THEN SortByVotesDesc(movies)
            ELSE SortMoviesByName(movies, sort_method = "name_no_articles")
    IN [j \in 1..Len(sorted_movies) |->
            [movie |-> sorted_movies[j], sort_method |-> sort_method]]

\* an export that writes the header on every call
WriteHeaderAlways(append, file_exists) == TRUE

\* line 122
WriteHeader(append, file_exists) == ~append \/ ~file_exists

\* lines 116-145 for a list that is not empty; every entry of
\* prepare_movies_for_export is a dict with a Movie
ExportMoviesToCsv(f, movies_data, append) ==
    [exists |-> TRUE,
     lines |-> (IF append THEN f.lines ELSE OpenW(f.lines))
                   \o (IF WriteHeader(append, f.exists) THEN <<TopHeader>>
                       ELSE <<>>)
                   \o [j \in 1..Len(movies_data) |->
                          TopLine("row", movies_data[j].sort_method,
                                  movies_data[j].movie.id,
                                  movies_data[j].movie.title)]]

\* lines 258-263: the call of get_top_movies_by_year
GetAndExportTopMovies ==
    /\ pc = "idle"
    /\ svc = IdleService
    /\ \E top_n \in 0..MaxTopN :
         ServiceStep(Loop([svc EXCEPT !.top_n = top_n, !.exporting = TRUE]))

ExportGetMoviesByYear == GetMoviesByYearPage(ExportPageAnswers)

\* one prepare_movies_for_export and export_movies_to_csv of lines 266-288;
\* an empty list raises ValueError (export_service.py, lines 113-114)
ExportStep(at, sort_method, append, next) ==
    /\ svc.exporting
    /\ svc.pc = at
    /\ svc.status = "returned"
    /\ LET movies_data ==
               PrepareMoviesForExport(svc.enriched_movies, sort_method)
       IN IF movies_data = <<>>
          THEN /\ svc' = [svc EXCEPT !.pc = "done", !.status = "ValueError"]
               /\ file' = file
          ELSE /\ svc' = [svc EXCEPT !.pc = next]
               /\ file' = ExportMoviesToCsv(file, movies_data, append)
    /\ UNCHANGED <<callState, direct, req>>

\* lines 266-269
ExportVotes == ExportStep("done", "votes", FALSE, "name")
\* lines 273-276
ExportName == ExportStep("name", "name", TRUE, "name_no_articles")
\* lines 280-285
ExportNameNoArticles ==
    ExportStep("name_no_articles", "name_no_articles", TRUE, "exported")

ExportNext ==
    \/ ExistingTopMovies
    \/ GetAndExportTopMovies
    \/ ExportGetMoviesByYear
    \/ ServiceGetMovieDetails
    \/ ServiceGetMovieKeywords
    \/ ServiceGetMovieCredits
    \/ ExportVotes
    \/ ExportName
    \/ ExportNameNoArticles

ExportSpec == Init /\ [][ExportNext]_vars

Next ==
    \/ Call
    \/ StartTarget
    \/ GetSimilarMovies
    \/ GetMovieRecommendations
    \/ GetMoviesByYear
    \/ GetNearbyYear
    \/ DiscoverMovies
    \/ EnrichNext
    \/ GetMovieDetails
    \/ GetMovieKeywords
    \/ GetMovieCredits
    \/ Rank
    \/ Return

\* one call for one target: pool assembly, enrichment and ranking
Spec == Init /\ [][Next]_vars

\* one call for a list of targets
BatchNext ==
    \/ CallBatch
    \/ StartTarget
    \/ GetSimilarMovies
    \/ GetMovieRecommendations
    \/ GetMoviesByYear
    \/ GetNearbyYear
    \/ DiscoverMovies
    \/ EnrichNext
    \/ GetMovieDetails
    \/ GetMovieKeywords
    \/ GetMovieCredits
    \/ Rank
    \/ Return

BatchSpec == Init /\ [][BatchNext]_vars

\* a sequence of calls on one engine
EngineNext ==
    \/ CallAgain
    \/ StartTarget
    \/ GetSimilarMovies
    \/ GetMovieRecommendations
    \/ GetMoviesByYear
    \/ GetNearbyYear
    \/ DiscoverMovies
    \/ EnrichNext
    \/ GetMovieDetails
    \/ GetMovieKeywords
    \/ GetMovieCredits
    \/ Rank
    \/ Return

EngineSpec == Init /\ [][EngineNext]_vars

\* one call for one target, over the release years of the target
YearNext ==
    \/ CallYears
    \/ StartTarget
    \/ GetSimilarMovies
    \/ GetMovieRecommendations
    \/ GetMoviesByYear
    \/ GetNearbyYear
    \/ GetNearbyYearLong
    \/ DiscoverMovies
    \/ EnrichNext
    \/ GetMovieDetails
    \/ GetMovieKeywords
    \/ GetMovieCredits
    \/ Rank
    \/ Return

YearSpec == Init /\ [][YearNext]_vars

\* one call with the same_genre strategy, over the genres of the target
GenreNext ==
    \/ CallGenres
    \/ StartTarget
    \/ DiscoverMovies
    \/ DiscoverMoviesLong
    \/ EnrichNext
    \/ GetMovieDetails
    \/ GetMovieKeywords
    \/ GetMovieCredits
    \/ Rank
    \/ Return

GenreSpec == Init /\ [][GenreNext]_vars

RemoveDuplicateMoviesCall ==
    /\ NotCalled
    /\ \E movies \in MovieLists :
            Direct("remove_duplicate_movies", movies,
                   RemoveDuplicateMovies(movies))

ValidateMovieListCall ==
    /\ NotCalled
    /\ \E movies \in RawLists :
            Direct("validate_movie_list", movies, ValidateMovieList(movies))

NormalizeTitleForSortingCall ==
    /\ NotCalled
    /\ \E title \in Titles, ignore_articles \in BOOLEAN :
            Direct("normalize_title_for_sorting", <<title, ignore_articles>>,
                   NormalizeTitleForSorting(title, ignore_articles))

ModelsNext ==
    \/ RemoveDuplicateMoviesCall
    \/ ValidateMovieListCall
    \/ NormalizeTitleForSortingCall

\* the functions of the movie model, called directly
ModelsSpec == Init /\ [][ModelsNext]_vars

ScoringNext ==
    \/ CalculateSimilarityScoreCall
    \/ GenerateSimilarityReasonCall
    \/ CalculateGenreSimilarityCall
    \/ CalculateKeywordSimilarityCall
    \/ CalculateProductionCompanySimilarityCall
    \/ CalculateDirectorSimilarityCall

\* an engine of any configuration whose scoring functions are called directly
ScoringSpec == Constructed(WeightConfigs) /\ [][ScoringNext]_vars

(***************************************************************************)
(* Properties                                                              *)
(***************************************************************************)
Ids(ms) == {ms[j].id : j \in 1..Len(ms)}
NoDuplicateIds(ms) ==
    \A a, b \in 1..Len(ms) : a # b => ms[a].id # ms[b].id

\* the call is between the return of _get_candidate_pool and the end of the
\* ranking of target i
RankingPcs == {"enrich", "details", "keywords", "credits", "rank"}

\* the processing of a target has ended and its pool had been assembled
PoolReturned ==
    \/ pc \in RankingPcs
    \/ /\ pc \in {"target", "done", "idle"}
       /\ tlog # <<>>
       /\ tlog[Len(tlog)].assembled
PoolTarget ==
    IF pc \in RankingPcs THEN top_movies[i]
    ELSE top_movies[tlog[Len(tlog)].target]

\* positions of the input whose target got an entry, in input order
RECURSIVE EntryTargets(_)
EntryTargets(log) ==
    IF log = <<>> THEN <<>>
    ELSE (IF Head(log).entry THEN <<top_movies[Head(log).target]>> ELSE <<>>)
         \o EntryTargets(Tail(log))
RECURSIVE OriginalMovies(_)
OriginalMovies(rs) ==
    IF rs = <<>> THEN <<>>
    ELSE <<Head(rs).original_movie>> \o OriginalMovies(Tail(rs))

\* C1: the candidate pool returned by pool assembly holds no two movies with
\* the same id and no movie with the id of the target, for every strategy
C1_PoolUniqueWithoutTarget ==
    pc \in RankingPcs =>
        /\ NoDuplicateIds(pool)
        /\ top_movies[i].id \notin Ids(pool)

\* C2: when the call reaches its return, every input position was processed
\* once and in order, the targets of the entries are the targets of the
\* positions that got an entry, in input order, a position got an entry iff
\* its pool was non-empty and at least one candidate was scored, and every
\* entry has a non-empty result list
C2_EntriesFollowInput ==
    pc = "done" =>
        /\ Len(tlog) = Len(top_movies)
        /\ \A p \in 1..Len(tlog) :
              /\ tlog[p].target = p
              /\ tlog[p].entry <=> (tlog[p].pool > 0 /\ tlog[p].scored > 0)
        /\ OriginalMovies(results) = EntryTargets(tlog)
        /\ \A j \in 1..Len(results) : results[j].similar_movies # <<>>
C2_Witness ==
    /\ pc = "done"
    /\ Len(top_movies) = 2
    /\ top_movies[1] # top_movies[2]
    /\ ~tlog[1].entry
    /\ Len(results) = 1
    /\ results[1].original_movie = top_movies[2]

\* position of scored candidate m in the descending, stable order
RankOf(s, m) ==
    1 + Cardinality({n \in 1..Len(s) :
            \/ s[n].similarity_score > s[m].similarity_score
            \/ s[n].similarity_score = s[m].similarity_score /\ n < m})

\* C3: the result list of a target is the first min(k, number of scored
\* candidates) elements of the scored candidates in descending score order,
\* candidates of equal score keeping their pool order
C3_TopKStableDescending ==
    /\ Len(similar_movies) = Min(similar_per_movie, Len(scored_movies))
    /\ \A m \in 1..Len(scored_movies) :
          RankOf(scored_movies, m) <= Len(similar_movies) =>
              similar_movies[RankOf(scored_movies, m)] = scored_movies[m]
C3_Witness ==
    /\ Len(scored_movies) = 3
    /\ Len(similar_movies) = 2
    /\ scored_movies[1].similarity_score = scored_movies[3].similarity_score
    /\ similar_movies = <<scored_movies[1], scored_movies[2]>>

\* C4: a call with a strategy outside the four valid ones ends with
\* ValueError, has issued no catalog request and has processed no target,
\* whatever the targets list
C4_InvalidStrategyFailsFast ==
    (calls > 0 /\ strategy \notin ValidStrategies) =>
        /\ status = "ValueError"
        /\ pc = "idle"
        /\ issued = 0
        /\ tlog = <<>>
C4_Witness ==
    /\ status = "ValueError"
    /\ strategy = "bogus"
    /\ Len(top_movies) = 2

\* C5: when the processing of a target raises during pool assembly, the call
\* is not aborted, the target gets no entry, and when the call reaches its
\* return every target of the input has been processed
C5_RaisingTargetIsSkipped ==
    \A p \in 1..Len(tlog) :
        tlog[p].raised = "pool" =>
            /\ pc # "aborted"
            /\ ~tlog[p].entry
            /\ top_movies[tlog[p].target] \notin Range(OriginalMovies(results))
            /\ pc \in {"done", "idle"} => Len(tlog) = Len(top_movies)
C5_Witness ==
    /\ pc = "idle"
    /\ status = "returned"
    /\ Len(top_movies) = 2
    /\ Len(tlog) = 2
    /\ tlog[1].raised = "pool"

\* the catalog requests a strategy issues for a target when none is skipped
ExpectedRequests(s, t) ==
    LET near == Cardinality({j \in 1..Len(YearOffsets) :
                    /\ t.release_year + YearOffsets[j] >= 1901
                    /\ t.release_year + YearOffsets[j] <= 2025})
    IN CASE s = "tmdb_api" -> 2
         [] s = "same_year" -> IF t.release_year = NoYear THEN 0 ELSE 1
         [] s = "same_genre" -> Min(2, Len(t.genres))
         [] s = "hybrid" -> IF t.release_year = NoYear THEN 2 ELSE 3 + near

C7_CounterCountsEveryRequest ==
    (pc = "done" /\ api_delay >= 0) => api_calls_made = issued

\* C8 as stated: after any call, the counter holds the number of requests of
\* that call that returned: it was reset to zero when the call started (delay
\* configured validly)
C8_CounterOfLastCall ==
    (pc = "idle" /\ calls > 0 /\ api_delay >= 0) => api_calls_made = returned

\* C8 amended: during and after a call whose strategy is valid the counter
\* holds the number of requests of that call that returned, and a call with
\* an invalid strategy leaves the counter as it was
C8_CounterResetByValidCall ==
    /\ [](calls > 0 /\ strategy \in ValidStrategies
             => api_calls_made = returned)
    /\ [][status' = "ValueError" => api_calls_made' = api_calls_made]_vars
C8_Witness ==
    /\ calls = 2
    /\ status = "ValueError"
    /\ api_calls_made > 0
    /\ issued = 0

\* the step is a catalog request of a candidate selection strategy
StrategyRequestStep == stratReqs' = stratReqs + 1

\* C9: within one execution of a strategy the inter-request delay is applied
\* between every two consecutive catalog requests (delay configured validly)
C9_DelayBetweenRequests ==
    [][(StrategyRequestStep /\ api_delay >= 0) => lastEv # "req"]_vars

\* C10: the delay is applied after the processing of every target but the
\* last one, also after a target that was skipped, and not after the last
\* one (stated for the targets that issued a catalog request, delay
\* configured validly)
C10_DelayBetweenTargets ==
    (pc = "done" /\ api_delay >= 0) =>
        \A p \in 1..Len(tlog) :
            /\ (p < Len(top_movies) /\ tlog[p].reqs > 0) => tlog[p].delayAfter
            /\ p = Len(top_movies) => ~tlog[p].delayAfter

\* the years the hybrid strategy asks get_movies_by_year for: the year of the
\* target, then the neighbouring years from 1901 to 2025
ExpectedYears(t) ==
    LET y == t.release_year
        InRange(n) == 1901 <= n /\ n <= 2025
    IN IF y = NoYear THEN <<>>
       ELSE <<y>> \o SelectSeq(<<y - 2, y - 1, y + 1, y + 2>>, InRange)

\* C11: when the hybrid strategy returns its pool it has asked for the year
\* of the target and then, once each, for exactly the years among t-2, t-1,
\* t+1, t+2 that lie in 1901..2025, and for no year when the target has no
\* release year; a neighbouring year adds at most 10 movies
C11_NeighbouringYears ==
    /\ []((PoolReturned /\ strategy = "hybrid")
             => yearReqs = ExpectedYears(PoolTarget))
    /\ [][pc = "nearby"
             => Len(all_candidates') <= Len(all_candidates) + 10]_vars
C11_Witness ==
    /\ pc = "enrich"
    /\ strategy = "hybrid"
    /\ yearReqs = <<1902, 1901, 1903, 1904>>
    /\ Len(pool) = 10

\* the next target is one the running strategy has nothing to ask about
NothingToAsk ==
    /\ pc = "target"
    /\ \/ strategy = "same_year" /\ top_movies[i].release_year = NoYear
       \/ strategy = "same_genre" /\ top_movies[i].genres = <<>>

\* C12: same_year on a target without release year and same_genre on a
\* target without genres return the empty pool at once: the target is
\* skipped with no catalog request issued and the counter unchanged
C12_EmptyPoolWithoutRequest ==
    [][NothingToAsk =>
          /\ pool' = <<>>
          /\ pc' \in {"target", "done"}
          /\ Len(tlog') = Len(tlog) + 1
          /\ tlog'[Len(tlog')].assembled
          /\ tlog'[Len(tlog')].reqs = 0
          /\ issued' = issued
          /\ api_calls_made' = api_calls_made]_vars
C12_Witness ==
    /\ pc = "done"
    /\ strategy = "same_genre"
    /\ top_movies = <<Matrix, Untitled>>
    /\ api_calls_made > 0
    /\ tlog[2].assembled
    /\ tlog[2].pool = 0
    /\ tlog[2].reqs = 0


\* C13: for every pair and every weight configuration the score is the sum
\* of the five sub-scores of the metrics, each times its weight, clamped to
\* [0, 1] and not renormalised, so it lies in [0, 1]; with the default weights
\* and the sub-scores 1, 1/2, 1, 1, 1 it is 0.95
ScoreCalled == direct.fn = "calculate_similarity_score"
SumOfMetrics ==
    LET m == direct.result.metrics
    IN m.genre_similarity * weights.genre
           + m.keyword_similarity * weights.keyword
           + m.director_similarity * weights.director
           + m.collection_similarity * weights.collection
           + m.production_company_similarity * weights.production_company
C13_ScoreIsClampedSum ==
    ScoreCalled =>
        LET score == direct.result.similarity_score
            m == direct.result.metrics
        IN /\ score >= 0 /\ score <= ScoreScale
           /\ SumOfMetrics < 0 => score = 0
           /\ SumOfMetrics > ScoreScale => score = ScoreScale
           /\ (SumOfMetrics >= 0 /\ SumOfMetrics <= ScoreScale)
                  => score = SumOfMetrics
           /\ ( /\ weights = DefaultWeights
                /\ m.genre_similarity = SimScale
                /\ 2 * m.keyword_similarity = SimScale
                /\ m.director_similarity = SimScale
                /\ m.collection_similarity = SimScale
                /\ m.production_company_similarity = SimScale )
                  => 100 * score = 95 * ScoreScale
C13_Witness ==
    /\ ScoreCalled
    /\ direct.args = <<Neo, Sequel>>
    /\ weights = DefaultWeights
    /\ 100 * direct.result.similarity_score = 95 * ScoreScale
C13_WitnessClamped ==
    /\ ScoreCalled
    /\ SumOfMetrics > ScoreScale
    /\ direct.result.similarity_score = ScoreScale

\* C14: genre, keyword and production-company similarity of two lists, which
\* may repeat elements, is the number of distinct common elements over the
\* number of distinct elements of both, and 0 when either list is empty
JaccardFns ==
    {"_calculate_genre_similarity", "_calculate_keyword_similarity",
     "_calculate_production_company_similarity"}
C14_JaccardOfSets ==
    direct.fn \in JaccardFns =>
        LET A == Range(direct.args[1])
            B == Range(direct.args[2])
        IN IF A = {} \/ B = {} THEN direct.result = 0
           ELSE direct.result * Cardinality(A \cup B)
                    = SimScale * Cardinality(A \cap B)
C14_Witness ==
    /\ direct.fn = "_calculate_production_company_similarity"
    /\ direct.args = <<<<79, 79, 174>>, <<174, 174>>>>
    /\ 2 * direct.result = SimScale

\* C15: the reason has at most three parts: the conditions that trigger, in
\* the order franchise, studio, director, genres, keywords, cut after the
\* third; it is "General similarity" exactly when none triggers; a keyword
\* part needs keyword_similarity > 0.3, a genre part genre_similarity > 0
Priority(part) ==
    CASE part.wording = "Same franchise" -> 1
      [] part.wording = "Same studio" -> 2
      [] part.wording = "Same director" -> 3
      [] part.wording \in {"Similar genres", "Some genre overlap"} -> 4
      [] part.wording = "Similar themes/keywords" -> 5
      [] OTHER -> 0
Triggered(a) ==
    {k \in 1..5 :
        \/ k = 1 /\ a.collection_sim > 0 /\ a.collection1 \notin {None, ""}
        \/ k = 2 /\ a.production_company_sim > 0
                 /\ a.shared_company_names # <<>>
        \/ k = 3 /\ a.director_sim > 0 /\ a.director1 \notin {None, ""}
        \/ k = 4 /\ a.genre_sim > 0
        \/ k = 5 /\ 10 * a.keyword_sim > 3 * SimScale}
ReasonCalled == direct.fn = "_generate_similarity_reason"
C15_ReasonParts ==
    ReasonCalled =>
        LET a == direct.args
            r == direct.result
            shown == {Priority(r[j]) : j \in 1..Len(r)}
        IN /\ Len(r) >= 1 /\ Len(r) <= 3
           /\ (r = <<[wording |-> "General similarity", names |-> <<>>]>>)
                  <=> (Triggered(a) = {})
           /\ Triggered(a) # {} =>
                  /\ shown \subseteq Triggered(a)
                  /\ Len(r) = Min(3, Cardinality(Triggered(a)))
                  /\ \A j \in 1..(Len(r) - 1) :
                         Priority(r[j]) < Priority(r[j + 1])
                  /\ \A k \in Triggered(a) \ shown :
                         \A n \in shown : n < k
           /\ 5 \in shown => 10 * a.keyword_sim > 3 * SimScale
           /\ 4 \in shown => a.genre_sim > 0
C15_Witness ==
    /\ ReasonCalled
    /\ Triggered(direct.args) = 1..5
    /\ Len(direct.result) = 3
    /\ direct.result[1].wording = "Same franchise"
    /\ direct.result[2].wording = "Same studio"
    /\ direct.result[3].wording = "Same director"

\* C16: whenever the collection similarity of the pair is 1.0 the reason
\* returned with the score has the franchise part, as its first part, and
\* whenever the production company similarity is above 0 it has the studio
\* part
ReasonReturned == direct.result.metrics.similarity_reason
HasStudioPart ==
    \E j \in 1..Len(ReasonReturned) : ReasonReturned[j].wording = "Same studio"
C16_FranchiseAndStudioAlwaysNamed ==
    ScoreCalled =>
        LET m == direct.result.metrics
        IN /\ m.collection_similarity = SimScale
                  => ReasonReturned[1].wording = "Same franchise"
           /\ m.production_company_similarity > 0 => HasStudioPart

\* C16 as the code has it: the franchise part needs the collection name of
\* the target, the studio part the name, among the target's production
\* companies, of a company the two movies share
TargetNamesCollection == direct.args[1].collection_name \notin {None, ""}
TargetNamesSharedCompany ==
    LET t == direct.args[1]
        c == direct.args[2]
    IN \E j \in 1..Len(t.production_companies) :
           /\ t.production_companies[j].id \in Range(c.production_company_ids)
           /\ t.production_companies[j].name \notin {None, ""}
C16_FranchiseAndStudioWhenNamed ==
    ScoreCalled =>
        LET m == direct.result.metrics
        IN /\ (m.collection_similarity = SimScale /\ TargetNamesCollection)
                  => ReasonReturned[1].wording = "Same franchise"
           /\ (m.production_company_similarity > 0 /\ TargetNamesSharedCompany)
                  => HasStudioPart
C16_Witness ==
    /\ ScoreCalled
    /\ direct.args = <<Partial, Neo>>
    /\ 3 * direct.result.metrics.production_company_similarity = SimScale
    /\ TargetNamesSharedCompany
    /\ ReasonReturned[1].wording = "Same studio"

\* C17: de-duplication returns one movie per distinct id of its input, the
\* instance seen first, in the order of the first occurrences; applied to
\* its own result it returns that result
FirstIndex(ms, id) ==
    CHOOSE j \in 1..Len(ms) :
        ms[j].id = id /\ \A h \in 1..(j - 1) : ms[h].id # id
DedupCalled == direct.fn = "remove_duplicate_movies"
C17_FirstSeenAndIdempotent ==
    DedupCalled =>
        LET ms == direct.args
            r == direct.result
        IN /\ Ids(r) = Ids(ms)
           /\ NoDuplicateIds(r)
           /\ \A j \in 1..Len(r) : r[j] = ms[FirstIndex(ms, r[j].id)]
           /\ \A j \in 1..(Len(r) - 1) :
                  FirstIndex(ms, r[j].id) < FirstIndex(ms, r[j + 1].id)
           /\ RemoveDuplicateMovies(r) = r
C17_Witness ==
    /\ DedupCalled
    /\ direct.args = <<Sparse3, Matrix, Rich3>>
    /\ direct.result = <<Sparse3, Matrix>>

\* C18: bulk validation returns, for any list, the movies of the elements
\* that are mappings with a positive id, a non-empty title and a vote count
\* that is not negative, in the order of the list, and skips the others
ValidateCalled == direct.fn = "validate_movie_list"
ValidIndices(rs) ==
    {j \in 1..Len(rs) :
        /\ "id" \in DOMAIN rs[j]
        /\ rs[j].id > 0
        /\ rs[j].title # ""
        /\ rs[j].vote_count >= 0}
NthValid(rs, n) ==
    CHOOSE j \in ValidIndices(rs) :
        Cardinality({h \in ValidIndices(rs) : h <= j}) = n
C18_ValidRecordsInOrder ==
    ValidateCalled =>
        LET rs == direct.args
            r == direct.result
        IN /\ Len(r) = Cardinality(ValidIndices(rs))
           /\ \A n \in 1..Len(r) : r[n] = rs[NthValid(rs, n)]
C18_Witness ==
    /\ ValidateCalled
    /\ direct.args = <<NoTitle, Rich4, NotAMapping>>
    /\ direct.result = <<Rich4>>

\* C19: get_top_movies_by_year raises ValueError whenever its page loop ends
\* with no valid movie collected, also when the first request returns the
\* failure signal or no results, and it never returns an empty list
ServiceDone == svc.pc = "done"
C19_EmptyResultRaises ==
    /\ [](ServiceDone /\ svc.status = "returned" => svc.enriched_movies # <<>>)
    /\ [](ServiceDone /\ svc.status # "exception" /\ svc.all_movies = <<>>
              => svc.status = "ValueError")
    /\ [][(svc.pc = "page" /\ svc.all_movies = <<>> /\ svc'.pc = "done")
              => svc'.status \in {"ValueError", "exception"}]_vars
C19_Witness ==
    /\ ServiceDone
    /\ svc.status = "ValueError"
    /\ svc.top_n = MaxTopN
    /\ svc.page = DefaultMaxPages + 1

\* C20: the list get_top_movies_by_year returns has at most top_n movies and
\* is in non-increasing order of vote_count, whatever the pages and the
\* details payloads
C20_TopNByVotes ==
    (ServiceDone /\ svc.status = "returned") =>
        /\ Len(svc.enriched_movies) <= svc.top_n
        /\ \A j \in 1..(Len(svc.enriched_movies) - 1) :
               svc.enriched_movies[j].vote_count
                   >= svc.enriched_movies[j + 1].vote_count

\* the results of an entry never hold a movie with the id of the entry's target
NoSelfMatch(entry) ==
    \A j \in 1..Len(entry.similar_movies) :
        entry.similar_movies[j].similar_movie.id # entry.original_movie.id

\* C26: no result of a returned entry has the id of the entry's target, also
\* when the enrichment replaced a pool candidate by a record with that id
C26_NoSelfMatchInResults ==
    \A e \in 1..Len(results) : NoSelfMatch(results[e])

\* the target just ranked got an entry although the enrichment had put a
\* record with the target's id in place of a pool candidate with another id
C26_Witness ==
    /\ pc \in {"target", "done"}
    /\ tlog # <<>>
    /\ tlog[Len(tlog)].entry
    /\ results # <<>>
    /\ LET t == top_movies[tlog[Len(tlog)].target] IN
         /\ results[Len(results)].original_movie = t
         /\ t.id \notin Ids(pool)
         /\ t.id \in Ids(enriched)

\* ids of the similar movies of an entry, in result order
ResultIds(entry) ==
    [j \in 1..Len(entry.similar_movies) |-> entry.similar_movies[j].similar_movie.id]

\* C30: within every returned entry the similar movies have pairwise distinct
\* ids, whatever the catalog answered
C30_DistinctResultIds ==
    \A e \in 1..Len(results) :
        LET ids == ResultIds(results[e]) IN
        \A a, b \in 1..Len(ids) : a # b => ids[a] # ids[b]

\* the step ends the enrichment of candidate ci
EnrichmentOfCandidateEnds ==
    pc \in {"enrich", "details", "keywords", "credits"} /\ ci' = ci + 1

\* the movies that can be rebuilt from details payload d: d as it is, or d
\* with the director that the credits named
RebuiltFrom(d) ==
    {MovieFromTmdbResponse(d)} \cup
    {MovieFromTmdbResponse([d EXCEPT !.director = a.data[1]]) :
        a \in {x \in CreditsAnswers : x.kind = "ok" /\ x.data # <<>>}}

\* the step is a request that raised (no answer returned) or, for the details
\* request, one that returned the failure signal
RequestFailed ==
    \/ issued' = issued + 1 /\ returned' = returned
    \/ pc = "details"

\* C25: the enrichment of candidate ci puts exactly one movie at position ci,
\* the original candidate or a movie rebuilt from the details payload fetched
\* for it; a failed details request, a raising request and a payload that
\* does not normalise leave the original candidate there and the loop goes on
\* with the next candidate; a candidate with genres, keywords and a director
\* triggers no request; the enriched list has the length of the pool
C25_EnrichmentKeepsPositions ==
    [][/\ EnrichmentOfCandidateEnds =>
            /\ enriched' \in {Append(enriched, pool[ci])} \cup
                   (IF pc = "credits"
                    THEN {Append(enriched, m) : m \in RebuiltFrom(details_data[1])}
                    ELSE {})
            /\ pc' = "enrich"
            /\ RequestFailed => enriched'[ci] = pool[ci]
            /\ (pc = "credits" /\ ~ValidRecord(details_data[1]))
                   => enriched'[ci] = pool[ci]
            /\ (pc = "enrich") => (issued' = issued /\ ~NeedsEnrichment(pool[ci]))
       /\ (pc = "enrich" /\ ci <= Len(pool) /\ ~NeedsEnrichment(pool[ci]))
            => (ci' = ci + 1 /\ issued' = issued)
       /\ pc' = "rank" => Len(enriched') = Len(pool)]_vars

\* the five sub-scores of a metrics dictionary
SubScores(m) ==
    <<m.genre_similarity, m.keyword_similarity, m.director_similarity,
      m.collection_similarity, m.production_company_similarity>>

DirectorCalled == direct.fn = "_calculate_director_similarity"

\* spellings of one name that differ in case and surrounding whitespace only
LanaSpellings == {"Lana Wachowski", "lana wachowski ", "lana wachowski"}
SameNameFolded(a, b) == a = b \/ (a \in LanaSpellings /\ b \in LanaSpellings)

\* C29: the five sub-scores and the overall score of (a, b) are those of
\* (b, a); director similarity is 1.0 in both directions for names that are
\* equal after case folding and trimming, 0.0 for names that are not, and 0.0
\* when either director is absent
C29_SimilarityIsSymmetric ==
    /\ ScoreCalled =>
        LET a == direct.args[1]
            b == direct.args[2]
        IN /\ direct.result.similarity_score
                  = CalculateSimilarityScore(weights, b, a)
           /\ SubScores(direct.result.metrics) = SubScores(Metrics(b, a))
    /\ DirectorCalled =>
        LET d1 == direct.args[1]
            d2 == direct.args[2]
        IN /\ direct.result = CalculateDirectorSimilarity(d2, d1)
           /\ direct.result = IF d1 \in {None, ""} \/ d2 \in {None, ""} THEN 0
                              ELSE IF SameNameFolded(d1, d2) THEN SimScale
                              ELSE 0

\* names that differ in case and whitespace were compared
C29_Witness ==
    /\ DirectorCalled
    /\ direct.args = <<"lana wachowski ", "Lana Wachowski">>
    /\ direct.result = SimScale

\* two different movies with a positive score were scored
C29_WitnessScore ==
    /\ ScoreCalled
    /\ direct.args = <<Partial, Neo>>
    /\ direct.result.similarity_score > 0
    /\ direct.result.similarity_score < ScoreScale

\* the filters the same_genre strategy is to send for target t: one request
\* per genre for the first two genres, with the year when it is known
ExpectedGenreFilters(t) ==
    [j \in 1..Min(2, Len(t.genres)) |->
        IF t.release_year = NoYear
        THEN [with_genres |-> t.genres[j]]
        ELSE [with_genres |-> t.genres[j],
              primary_release_year |-> t.release_year]]

\* C27: for a target with at least one genre the same_genre strategy issues
\* exactly min(2, number of genres) discovery requests, one per genre for the
\* first two genres in stored order, each filtered by that genre and by the
\* release year when it is known; it takes at most 25 records from each
\* response and the pool has at most 50 movies
C27_SameGenreRequests ==
    /\ []((strategy = "same_genre" /\ PoolReturned /\ PoolTarget.genres # <<>>)
            => /\ stratReqs = Min(2, Len(PoolTarget.genres))
               /\ genreReqs = ExpectedGenreFilters(PoolTarget)
               /\ Len(pool) <= 50)
    /\ [][pc = "genre" => Len(candidates') <= Len(candidates) + 25]_vars

\* both requests were answered with a page of 26 records and the pool holds
\* 25 of each
C27_Witness ==
    /\ pc = "enrich"
    /\ strategy = "same_genre"
    /\ top_movies[i].genres = <<"SciFi", "Action">>
    /\ genreReqs = <<[with_genres |-> "SciFi", primary_release_year |-> 2025],
                     [with_genres |-> "Action", primary_release_year |-> 2025]>>
    /\ Len(pool) = 50

\* a target with one genre and no year: one request without a year filter
C27_WitnessOneGenre ==
    /\ pc = "enrich"
    /\ strategy = "same_genre"
    /\ genreReqs = <<[with_genres |-> "Thriller"]>>
    /\ Len(pool) = 25

\* the page loop is about to issue a request
PageRequestPending == svc.pc = "page"

\* C28: the page loop of get_top_movies_by_year issues at most max_pages
\* requests and has ended once it issued that many; the pages requested are
\* 1, 2, 3, ... without a repetition; a further request is issued only if the
\* last one returned a non-empty result list, the page it asked for was below
\* the reported total_pages, and fewer than 2 * top_n movies are collected
C28_PageLoop ==
    /\ svc.requested = [j \in 1..Len(svc.requested) |-> j]
    /\ Len(svc.requested) <= 5
    /\ Len(svc.requested) = 5 => ~PageRequestPending
    /\ PageRequestPending =>
        /\ svc.page = Len(svc.requested) + 1
        /\ Len(svc.all_movies) < 2 * svc.top_n
        /\ svc.requested # <<>> =>
            /\ svc.data # <<>>
            /\ svc.data[1].results # <<>>
            /\ svc.requested[Len(svc.requested)] < svc.data[1].total_pages

\* five pages were requested, each held only invalid records and reported
\* more pages, and the loop has ended
C28_Witness ==
    /\ svc.requested = <<1, 2, 3, 4, 5>>
    /\ svc.all_movies = <<>>
    /\ svc.data # <<>>
    /\ svc.data[1].total_pages > 5
    /\ svc.pc = "done"

\* the loop ended after two pages because 2 * top_n movies were collected
C28_WitnessEnough ==
    /\ svc.requested = <<1, 2>>
    /\ svc.top_n = 2
    /\ Len(svc.all_movies) = 4
    /\ svc.data[1].total_pages > 2
    /\ ~PageRequestPending

NormalizeCalled == direct.fn = "normalize_title_for_sorting"

\* the words sort_movies_by_name documents and test_article_removal.py
\* expects to be removed
ListedWords ==
    {"the", "a", "an", "in", "on", "at", "for", "with", "by", "from", "to",
     "of", "and", "or", "but"}

\* a trimmed title without its leading listed words
RECURSIVE WithoutLeadingListedWords(_)
WithoutLeadingListedWords(title) ==
    IF Len(title) >= 2 /\ Lower(title[1]) \in ListedWords /\ title[2] = Space
    THEN WithoutLeadingListedWords(Strip(Tail(title)))
    ELSE title

\* C23: with ignore_articles the normalised title is the trimmed title
\* without its leading listed words, removed one after the other until the
\* first word is not listed ("The The Movie" gives "Movie", "By the Sea"
\* gives "Sea"); without it the title is only trimmed
C23_EveryLeadingListedWordRemoved ==
    NormalizeCalled =>
        LET title == direct.args[1]
            ignore_articles == direct.args[2]
        IN /\ ignore_articles
                => direct.result = WithoutLeadingListedWords(Strip(title))
           /\ ~ignore_articles => direct.result = Strip(title)

\* positions of the log that are HTTP attempts
AttemptsOf(log) == {j \in 1..Len(log) : log[j].ev = "attempt"}

\* C24: a request makes at most max_retries HTTP attempts; a successful
\* attempt is the last one and the call returns its payload; after a failed
\* attempt that another attempt follows the client waits retry_delay times
\* the number of the failed attempt, and it waits nowhere else, so not after
\* the last attempt; when max_retries attempts have failed the call returns
\* None and raises nothing
C24_RetryLoop ==
    LET log == req.log
        attempts == AttemptsOf(log)
    IN /\ Cardinality(attempts) <= req.max_retries
       /\ \A j \in attempts :
            /\ log[j].n = Cardinality({h \in attempts : h <= j})
            /\ log[j].outcome = "ok" =>
                 /\ j = Len(log)
                 /\ req.pc = "done" /\ req.result = "data"
                 /\ req.data = log[j].data
            /\ (j < Len(log)) =>
                 /\ log[j + 1].ev = "sleep"
                 /\ log[j + 1].n = req.retry_delay * log[j].n
       /\ \A j \in 1..Len(log) : log[j].ev = "sleep" =>
            /\ j > 1 /\ log[j - 1].ev = "attempt"
            /\ IF j < Len(log) THEN log[j + 1].ev = "attempt"
               ELSE req.pc = "attempt"
       /\ req.result = "data" => (log # <<>> /\ log[Len(log)].outcome = "ok")
       /\ ( /\ req.pc = "done"
            /\ Cardinality(attempts) = req.max_retries
            /\ \A j \in attempts : log[j].outcome # "ok" )
              => req.result = "None"

\* three attempts failed, the client waited once and twice the delay between
\* them and returned None
C24_Witness ==
    /\ req.pc = "done"
    /\ req.max_retries = 3
    /\ req.retry_delay = 2
    /\ Len(req.log) = 5
    /\ req.log[2] = Event("sleep", 2, "slept", "none")
    /\ req.log[4] = Event("sleep", 4, "slept", "none")
    /\ req.log[5].outcome = "Timeout"
    /\ req.result = "None"

\* the second attempt succeeded and no third one was made
C24_WitnessSuccess ==
    /\ req.pc = "done"
    /\ req.max_retries = 3
    /\ Len(req.log) = 3
    /\ req.log[3].outcome = "ok"
    /\ req.result = "data"
    /\ req.data = "page B"

ExportSimilarCalled == direct.fn = "export_similar_movies_to_csv"

\* the rows of the valid entries of a dataset, in input order
RECURSIVE ExpectedSimilarRows(_)
ExpectedSimilarRows(data) ==
    IF data = <<>> THEN <<>>
    ELSE LET e == Head(data)
         IN (IF e.kind = "dict" /\ Len(e.original_movie) = 1
                    /\ Len(e.similar_movie) = 1
             THEN <<[kind |-> "row",
                     original_movie_id |-> e.original_movie[1].id,
                     similar_movie_id |-> e.similar_movie[1].id,
                     similarity_score |->
                         IF e.similarity_score = None THEN ""
                         ELSE e.similarity_score]>>
             ELSE <<>>) \o ExpectedSimilarRows(Tail(data))

\* C21: exporting an empty dataset raises ValueError and leaves the file
\* system as it was, whether or not a file of the name existed; exporting a
\* non-empty dataset leaves a file that holds one header and after it
\* exactly one row for every valid entry, in input order
C21_SimilarExport ==
    ExportSimilarCalled =>
        IF direct.args.data = <<>>
        THEN direct.result = "ValueError" /\ file = direct.args.file
        ELSE /\ direct.result # "ValueError"
             /\ file.exists
             /\ file.lines # <<>>
             /\ file.lines[1].kind = "header"
             /\ Tail(file.lines) = ExpectedSimilarRows(direct.args.data)

\* a dataset with an invalid entry between two valid ones was written over a
\* file of an earlier run
C21_Witness ==
    /\ ExportSimilarCalled
    /\ direct.args.file.lines # <<>>
    /\ Len(direct.args.data) = 3
    /\ direct.args.data[2].kind = "str"
    /\ Len(file.lines) = 3
    /\ file.lines[2].similar_movie_id = 3
    /\ file.lines[3].similar_movie_id = 4

\* the empty dataset was refused while a file of the name existed
C21_WitnessEmpty ==
    /\ ExportSimilarCalled
    /\ direct.args.data = <<>>
    /\ direct.result = "ValueError"
    /\ file.exists
    /\ Len(file.lines) = 2


\* the labels of the data rows of a file, in file order
RowLabels(lines) ==
    LET rows == SelectSeq(lines, LAMBDA l : l.kind = "row")
    IN [j \in 1..Len(rows) |-> rows[j].sort_method]

Exported == svc.exporting /\ svc.pc = "exported"

\* C22: when get_and_export_top_movies has retrieved N movies and returned,
\* the file holds 3N + 1 lines: the header first and only there, then N rows
\* labelled votes, N labelled name and N labelled name_no_articles, whatever
\* the file system held before the call
C22_ExportedFile ==
    Exported =>
        LET N == Len(svc.enriched_movies)
        IN /\ N >= 1
           /\ file.exists
           /\ Len(file.lines) = 3 * N + 1
           /\ file.lines[1].kind = "header"
           /\ \A j \in 2..(3 * N + 1) :
                /\ file.lines[j].kind = "row"
                /\ file.lines[j].sort_method =
                       IF j <= N + 1 THEN "votes"
                       ELSE IF j <= 2 * N + 1 THEN "name"
                       ELSE "name_no_articles"

\* two movies were exported over the file of an earlier run, and the two
\* name orders differ
C22_Witness ==
    /\ Exported
    /\ Len(svc.enriched_movies) = 2
    /\ Len(file.lines) = 7
    /\ file.lines[2].title = "The Matrix"
    /\ file.lines[4].title = "Reloaded"
    /\ file.lines[5].title = "The Matrix"
    /\ file.lines[6].title = "The Matrix"
    /\ file.lines[7].title = "Reloaded"

\* the export happened where no file of the name existed
C22_WitnessNewFile ==
    /\ Exported
    /\ Len(svc.enriched_movies) = 1
    /\ Len(file.lines) = 4
    /\ RowLabels(file.lines) = <<"votes", "name", "name_no_articles">>

====
